---- MODULE Spec2Model ----
(***************************************************************************)
(* Delegate check-in service (src/services/supabaseService.ts) over the    *)
(* hosted tables `delegates` and `checkins`.                               *)
(*                                                                         *)
(* Strings are sequences of one-character strings, so that trim(),         *)
(* toUpperCase(), charCodeAt() and padStart() are computed, not assumed.   *)
(* `undefined` and `null` are the one-element sequences Undefined and      *)
(* Null, whose element is no character.                                    *)
(***************************************************************************)
EXTENDS Integers, Sequences, FiniteSets, TLC

\* ------------------------------------------------------------------ strings
Undefined == <<"undefined">>
Null == <<"null">>
EmptyString == <<>>

\* JavaScript truthiness of an optional string: undefined, null and "" are falsy.
Truthy(s) == s # Undefined /\ s # Null /\ s # EmptyString

IsSpace(c) == c = " "

RECURSIVE TrimStart(_)
TrimStart(s) ==
    IF s = <<>> THEN <<>>
    ELSE IF IsSpace(Head(s)) THEN TrimStart(Tail(s)) ELSE s

RECURSIVE TrimEnd(_)
TrimEnd(s) ==
    IF s = <<>> THEN <<>>
    ELSE IF IsSpace(s[Len(s)]) THEN TrimEnd(SubSeq(s, 1, Len(s) - 1)) ELSE s

\* String.prototype.trim
Trim(s) == TrimEnd(TrimStart(s))

UpperChar(c) ==
    CASE c = "a" -> "A" [] c = "b" -> "B" [] c = "c" -> "C" [] c = "d" -> "D"
      [] c = "j" -> "J" [] c = "k" -> "K" [] c = "l" -> "L" [] c = "m" -> "M"
      [] c = "o" -> "O" [] c = "x" -> "X" [] c = "z" -> "Z"
      [] c = "e" -> "E" [] c = "n" -> "N" [] c = "w" -> "W"
      [] OTHER -> c

\* String.prototype.toUpperCase
ToUpperCase(s) == [i \in 1..Len(s) |-> UpperChar(s[i])]

\* String.prototype.charCodeAt for the characters identifiers are made of
CharCode(c) ==
    CASE c = "A" -> 65 [] c = "B" -> 66 [] c = "C" -> 67 [] c = "D" -> 68
      [] c = "a" -> 97 [] c = "b" -> 98 [] c = "c" -> 99 [] c = "d" -> 100
      [] c = "e" -> 101 [] c = "s" -> 115
      [] c = "0" -> 48 [] c = "1" -> 49 [] c = "2" -> 50 [] c = "3" -> 51
      [] c = "G" -> 71 [] c = "Z" -> 90 [] c = "y" -> 121 [] c = "_" -> 95
      [] c = "N" -> 78 [] c = "4" -> 52 [] c = "5" -> 53 [] c = "6" -> 54
      [] c = "7" -> 55 [] c = "8" -> 56 [] c = "9" -> 57
      [] c = " " -> 32
      [] OTHER -> 63

\* a trim that takes one space off each end
normalize_once(val) ==
    LET s == IF Truthy(val) THEN val ELSE EmptyString
        t == IF s # <<>> /\ IsSpace(Head(s)) THEN Tail(s) ELSE s
    IN  IF t # <<>> /\ IsSpace(t[Len(t)]) THEN SubSeq(t, 1, Len(t) - 1) ELSE t

\* normalize (supabaseService.ts): (val || '').trim()
normalize(val) == IF Truthy(val) THEN Trim(val) ELSE EmptyString

\* replace(/\s+/g, ' '): every run of spaces becomes one space
RECURSIVE CollapseSpaces(_)
CollapseSpaces(s) ==
    IF s = <<>> THEN <<>>
    ELSE IF IsSpace(Head(s))
    THEN <<" ">> \o CollapseSpaces(TrimStart(s))
    ELSE <<Head(s)>> \o CollapseSpaces(Tail(s))

\* normalize of the earlier service: (val || '').replace(/\s+/g, ' ').trim()
normalize_collapsing(val) == IF Truthy(val) THEN Trim(CollapseSpaces(val)) ELSE EmptyString

\* ------------------------------------------------- 32-bit integer arithmetic
\* A 32-bit word is <<hi, lo>>, two 16-bit halves, so that no intermediate
\* value leaves the range of the model checker's integers.
Half == 65536

Word(hi, lo) == <<hi, lo>>

\* a shift by four bits
Shl4(w) ==
    LET lo32 == w[2] * 16
    IN  Word((w[1] * 16 + lo32 \div Half) % Half, lo32 % Half)

\* ToInt32(w << 5)
Shl5(w) ==
    LET lo32 == w[2] * 32
    IN  Word((w[1] * 32 + lo32 \div Half) % Half, lo32 % Half)

\* ToInt32(a - b)
Sub32(a, b) ==
    LET lo == a[2] - b[2]
        borrow == IF lo < 0 THEN 1 ELSE 0
    IN  Word((a[1] - b[1] - borrow + 2 * Half) % Half, (lo + Half) % Half)

\* ToInt32(a + n) for a small non-negative n
Add32(a, n) ==
    LET lo == a[2] + n
    IN  Word((a[1] + lo \div Half) % Half, lo % Half)

IsNegative32(w) == w[1] >= 32768

\* Math.abs of the signed value, as an unsigned word (abs(-2^31) = 2^31)
Abs32(w) == IF IsNegative32(w) THEN Sub32(Word(0, 0), w) ELSE w

\* unsigned word modulo a small m
Mod32(w, m) == ((w[1] % m) * (Half % m) + w[2]) % m

\* the loop of generateCodeFromId: hash = ((hash << 5) - hash) + char; hash & hash
RECURSIVE HashLoop(_, _)
HashLoop(hash, salt) ==
    IF salt = <<>> THEN hash
    ELSE LET sum == Add32(Sub32(Shl5(hash), hash), CharCode(Head(salt)))
         IN  IF sum[1] < Half
             THEN HashLoop(sum, Tail(salt))
             ELSE HashLoop(Word(sum[1] % Half, sum[2]), Tail(salt))

DigitChar(n) == <<"0", "1", "2", "3", "4", "5", "6", "7", "8", "9">>[n + 1]

\* Number.prototype.toString for a non-negative integer
RECURSIVE NumToString(_)
NumToString(n) ==
    IF n < 10 THEN <<DigitChar(n)>>
    ELSE NumToString(n \div 10) \o <<DigitChar(n % 10)>>

\* no padding
PadStart_none(s, width) == s

\* String.prototype.padStart(width, '0')
RECURSIVE PadStart(_, _)
PadStart(s, width) == IF Len(s) >= width THEN s ELSE PadStart(<<"0">> \o s, width)

CodeModulus == 9999
CodeWidth == 4

\* the code computed without the test for a missing id
generateCodeFromId_unguarded(delegateId, eventId) ==
    LET salt == delegateId \o eventId
        hash == HashLoop(Word(0, 0), salt)
        code == Mod32(Abs32(hash), CodeModulus) + 1
    IN  PadStart(NumToString(code), CodeWidth)

generateCodeFromId(delegateId, eventId) ==
    IF ~Truthy(delegateId) \/ ~Truthy(eventId) THEN <<"0", "0", "0", "0">>
    ELSE LET salt == delegateId \o eventId
             hash == HashLoop(Word(0, 0), salt)
             code == Mod32(Abs32(hash), CodeModulus) + 1
         IN  PadStart(NumToString(code), CodeWidth)

\* ------------------------------------------------------------------ bounds
\* insert attempts (captured check-in timestamps) in one behaviour
MaxCheckIns == 2

\* rows of the table delegates in one behaviour
MaxDelegates == 5

\* ------------------------------------------------------------- identifiers
E1 == <<"e", "1">>
E2 == <<"e", "2">>

\* "Aa" and "BB" have the same rolling hash, so they share a code in every event
DAa == <<"A", "a">>
DBB == <<"B", "B">>
DCc == <<"C", "c">>

S1 == <<"s", "1">>
S2 == <<"s", "2">>
Blank == <<" ">>

\* ------------------------------------------------------------------- users
\* UserRole.REGISTRAR (types)
REGISTRAR == "registrar"

\* toLowerCase on a role
LowerRole(role) == IF role = "Registrar" THEN "registrar" ELSE role

Registrars == {"r1", "r2"}

\* r1 is a registrar scoped to district "L " (stored with a trailing blank),
\* r2 an administrator without a district
User(p) ==
    IF p = "r1" THEN [id |-> "r1", role |-> "Registrar", district |-> <<"L", " ">>]
    ELSE [id |-> "r2", role |-> "admin", district |-> Undefined]

\* ------------------------------------------------------------------ tables
DistrictL == <<"L">>
DistrictK == <<"K">>

DelegateRow(id, first, last, phone, district, rank, code) ==
    [delegate_id |-> id, first_name |-> first, last_name |-> last, phone |-> phone,
     district |-> district, rank |-> rank, code |-> code]

\* the form of the new-delegate page
Form(first, last, phone, district, rank) ==
    [first_name |-> first, last_name |-> last, phone |-> phone,
     district |-> district, rank |-> rank]

\* the form as the page opens it
NoForm == Form(EmptyString, EmptyString, EmptyString, EmptyString, <<"C", "P">>)

CheckInRow(id, eventId, delegateId, sessionId, by, at) ==
    [checkin_id |-> id, event_id |-> eventId, delegate_id |-> delegateId,
     session_id |-> sessionId, checked_in_by |-> by, checked_in_at |-> at]

\* a row of financial_entries and a row of pledges
FinancialEntry(id, eventId, amount) == [entry_id |-> id, event_id |-> eventId, amount |-> amount]

Pledge(id, eventId) == [id |-> id, event_id |-> eventId]

VARIABLES
    delegates,  \* table delegates, in storage order
    checkins,   \* table checkins
    clock,      \* the next value of new Date()
    nextId,     \* the number of the next key the tables hand out
    pc,         \* per registrar: "idle", or the awaited request of its call
    call,       \* per registrar: the arguments and locals of the call in flight
    response,   \* what the call completed by the last step hands to its caller
    origin,     \* history: checkin_id -> the sessionId argument that created the row
    financial_entries,  \* table financial_entries
    pledges     \* table pledges

vars == <<delegates, checkins, clock, nextId, pc, call, response, origin,
          financial_entries, pledges>>

\* --------------------------------------------------------------- responses
NoStats == [totalDelegates |-> 0, totalCheckIns |-> 0, totalFinancials |-> 0,
            checkInsByRank |-> <<>>, checkInsByDistrict |-> <<>>, recentActivity |-> <<>>]

NoCall == [op |-> "none", eventId |-> EmptyString, arg |-> EmptyString,
           sessionId |-> Undefined, district |-> Undefined, delegateId |-> EmptyString,
           again |-> FALSE, form |-> NoForm, display |-> EmptyString, error |-> "none"]

\* the call as its caller made it; error is the error of a persistence answer
\* the call has met and gone past, "none" if there is none
Call(op, eventId, arg, sessionId, district, delegateId) ==
    [op |-> op, eventId |-> eventId, arg |-> arg, sessionId |-> sessionId,
     district |-> district, delegateId |-> delegateId, again |-> FALSE,
     form |-> NoForm, display |-> EmptyString, error |-> "none"]

\* the call as it was made, without the locals kept while it is in flight
Made(c) ==
    [Call(c.op, c.eventId, c.arg, c.sessionId, c.district, c.delegateId) EXCEPT
        !.again = c.again, !.form = c.form, !.display = c.display, !.error = c.error]

Response(by, c, outcome, success, message, code) ==
    [by |-> by, op |-> c.op, eventId |-> c.eventId, arg |-> c.arg, sessionId |-> c.sessionId,
     district |-> c.district, delegateId |-> c.delegateId, again |-> c.again,
     form |-> c.form, display |-> c.display,
     outcome |-> outcome, success |-> success, message |-> message, code |-> code,
     error |-> c.error, rows |-> <<>>, stats |-> NoStats, count |-> 0]

NoResponse == Response("", NoCall, "none", FALSE, "", EmptyString)

\* throw new Error(message)
Thrown(by, c, message, error) ==
    [Response(by, c, "throw", FALSE, message, EmptyString) EXCEPT !.error = error]

\* return { success, message, code }
Returned(by, c, success, message, code) == Response(by, c, "return", success, message, code)

\* return a list of annotated delegates
ReturnedRows(by, c, rows) ==
    [Response(by, c, "return", TRUE, "", EmptyString) EXCEPT !.rows = rows]

\* return a number of rows
ReturnedCount(by, c, n) ==
    [Response(by, c, "return", TRUE, "", EmptyString) EXCEPT !.count = n]

\* return the dashboard figures
ReturnedStats(by, c, stats) ==
    [Response(by, c, "return", TRUE, "", EmptyString) EXCEPT !.stats = stats]

Idle(p) == pc[p] = "idle"

\* no result is waiting for its caller
Ready == response = NoResponse

Finish(p) ==
    /\ pc' = [pc EXCEPT ![p] = "idle"]
    /\ call' = [call EXCEPT ![p] = NoCall]

\* ------------------------------------------------------- persistence layer
\* insert into checkins under the uniqueness constraint on
\* (event_id, delegate_id, session_id), null session being one value
UniqueViolation(table, row) ==
    \E r \in table :
        /\ r.event_id = row.event_id
        /\ r.delegate_id = row.delegate_id
        /\ r.session_id = row.session_id

\* .maybeSingle(): data is the row when exactly one row matches, else null.
\* The data is modelled as the set of that row, or the empty set for null.
NoData == {}

\* a lookup that never reports a row
maybeSingle_never(rows) == NoData

maybeSingle(rows) == IF Cardinality(rows) = 1 THEN rows ELSE NoData

\* handleSupabaseError: any error of the response is thrown
handleSupabaseError(by, c, error, customMessage) == Thrown(by, c, customMessage, error)

\* ----------------------------------------------------------- checkInDelegate
\* a scope that takes every non-empty session id as it comes
checkIn_safeSessionId_untrimmed(sessionId) == IF Truthy(sessionId) THEN sessionId ELSE Null

\* const safeSessionId = (sessionId && sessionId.trim() !== "") ? sessionId : null
checkIn_safeSessionId(sessionId) ==
    IF Truthy(sessionId) /\ Trim(sessionId) # EmptyString THEN sessionId ELSE Null

\* a code read from the delegate's code column when it has one
checkIn_code_stored(delegateId, eventId) ==
    LET Has(d) == d.delegate_id = delegateId /\ Truthy(d.code)
        rows == SelectSeq(delegates, Has)
    IN  IF rows = <<>> THEN generateCodeFromId(delegateId, eventId) ELSE rows[1].code

\* const code = generateCodeFromId(delegateId, eventId)
checkIn_code(delegateId, eventId) == generateCodeFromId(delegateId, eventId)

\* an existence query that looks at event arrivals only
existingQuery_arrivalOnly(eventId, delegateId, safeSessionId) ==
    {r \in checkins :
        /\ r.event_id = eventId
        /\ r.delegate_id = delegateId
        /\ r.session_id = Null}

\* the existence query: checkins of the event and delegate with the session, or with none
existingQuery(eventId, delegateId, safeSessionId) ==
    {r \in checkins :
        /\ r.event_id = eventId
        /\ r.delegate_id = delegateId
        /\ r.session_id = safeSessionId}

\* a checkInDelegate that refuses, as checkInByCode does, a delegate outside the
\* district of a scoped registrar
checkInDelegate_lookup_scoped(p, c) ==
    LET safeSessionId == checkIn_safeSessionId(c.sessionId)
        code == checkIn_code(c.delegateId, c.eventId)
        existing == maybeSingle(existingQuery(c.eventId, c.delegateId, safeSessionId))
        scoped == LowerRole(User(p).role) = REGISTRAR /\ Truthy(User(p).district)
        foreign ==
            \E i \in 1..Len(delegates) :
                /\ delegates[i].delegate_id = c.delegateId
                /\ delegates[i].district # normalize(User(p).district)
    IN  IF ~Truthy(c.eventId) \/ ~Truthy(c.delegateId)
        THEN /\ response' = Thrown(p, c, "Context required.", "none")
             /\ Finish(p)
             /\ UNCHANGED clock
        ELSE IF scoped /\ foreign
        THEN /\ response' = Returned(p, c, FALSE, "Invalid code or district unauthorized.",
                                     EmptyString)
             /\ Finish(p)
             /\ UNCHANGED clock
        ELSE IF existing # NoData
        THEN /\ response' = Returned(p, c, TRUE, "Already Verified", code)
             /\ Finish(p)
             /\ UNCHANGED clock
        ELSE /\ clock < MaxCheckIns
             /\ pc' = [pc EXCEPT ![p] = "insert"]
             /\ call' = [call EXCEPT ![p] =
                    [c EXCEPT !.sessionId = c.sessionId] @@
                    [safeSessionId |-> safeSessionId, code |-> code, checked_in_at |-> clock]]
             /\ clock' = clock + 1
             /\ response' = NoResponse

\* checkInDelegate up to the answer of its existence query
checkInDelegate_lookup(p, c) ==
    LET safeSessionId == checkIn_safeSessionId(c.sessionId)
        code == checkIn_code(c.delegateId, c.eventId)
        existing == maybeSingle(existingQuery(c.eventId, c.delegateId, safeSessionId))
    IN  IF ~Truthy(c.eventId) \/ ~Truthy(c.delegateId)
        THEN /\ response' = Thrown(p, c, "Context required.", "none")
             /\ Finish(p)
             /\ UNCHANGED clock
        ELSE IF existing # NoData
        THEN /\ response' = Returned(p, c, TRUE, "Already Verified", code)
             /\ Finish(p)
             /\ UNCHANGED clock
        ELSE /\ clock < MaxCheckIns
             /\ pc' = [pc EXCEPT ![p] = "insert"]
             /\ call' = [call EXCEPT ![p] =
                    [c EXCEPT !.sessionId = c.sessionId] @@
                    [safeSessionId |-> safeSessionId, code |-> code, checked_in_at |-> clock]]
             /\ clock' = clock + 1
             /\ response' = NoResponse

\* a registrar calls db.checkInDelegate(eventId, delegateId, registrar, sessionId)
CheckInDelegate(p, eventId, delegateId, sessionId) ==
    /\ Ready
    /\ Idle(p)
    /\ checkInDelegate_lookup(p, Call("checkInDelegate", eventId, delegateId, sessionId,
                                      Undefined, delegateId))
    /\ UNCHANGED <<delegates, checkins, nextId, origin>>
    /\ UNCHANGED <<financial_entries, pledges>>

\* once db.checkInDelegate has answered, a registrar calls it again for the
\* same event, delegate and session scope, before anything else happens
CheckInAgain(p) ==
    /\ response.op = "checkInDelegate"
    /\ Idle(p)
    /\ \E sessionId \in {Undefined, EmptyString, Blank, response.sessionId} :
            /\ checkIn_safeSessionId(sessionId) = checkIn_safeSessionId(response.sessionId)
            /\ checkInDelegate_lookup(p,
                [Call("checkInDelegate", response.eventId, response.arg, sessionId,
                      Undefined, response.arg) EXCEPT !.again = TRUE])
    /\ UNCHANGED <<delegates, checkins, nextId, origin>>
    /\ UNCHANGED <<financial_entries, pledges>>

\* the caller takes the result of its call; the new-delegate page goes on
\* with the delegate registerDelegate returned
Return ==
    /\ ~Ready
    /\ ~(response.op = "registerDelegate" /\ response.outcome = "return")
    /\ response' = NoResponse
    /\ UNCHANGED <<delegates, checkins, clock, nextId, pc, call, origin>>
    /\ UNCHANGED <<financial_entries, pledges>>

\* the insert of checkInDelegate reaches the table and the call returns
CheckInInsert(p) ==
    /\ Ready
    /\ pc[p] = "insert"
    /\ LET c == call[p]
           row == CheckInRow(nextId, c.eventId, c.delegateId, c.safeSessionId,
                             User(p).id, c.checked_in_at)
           made == Made(c)
       IN  IF UniqueViolation(checkins, row)
           THEN /\ response' = handleSupabaseError(p, made, "unique_violation", "Verification Rejected")
                /\ UNCHANGED <<checkins, nextId, origin>>
           ELSE /\ checkins' = checkins \cup {row}
                /\ nextId' = nextId + 1
                /\ origin' = origin @@ (nextId :> c.sessionId)
                /\ response' = Returned(p, made, TRUE, "Verification Confirmed", c.code)
    /\ Finish(p)
    /\ UNCHANGED <<delegates, clock>>
    /\ UNCHANGED <<financial_entries, pledges>>

\* ------------------------------------------------------------- checkInByCode
\* (registrar.role || '').toLowerCase() === UserRole.REGISTRAR && registrar.district
isScopedRegistrar(registrar) ==
    LowerRole(registrar.role) = REGISTRAR /\ Truthy(registrar.district)

\* no scoping of the candidates
districtFilter_none(registrar) == Undefined

\* isScopedRegistrar ? normalize(registrar.district) : undefined
districtFilter(registrar) ==
    IF isScopedRegistrar(registrar) THEN normalize(registrar.district) ELSE Undefined

\* supabase.from('delegates').select('delegate_id'), .eq('district', districtFilter) if any
codeCandidates(registrar) ==
    LET filter == districtFilter(registrar)
        InDistrict(d) == d.district = filter
    IN  IF Truthy(filter) THEN SelectSeq(delegates, InDistrict) ELSE delegates

\* a find that takes the first candidate whatever its code
findByCode_first(candidates, eventId, code) ==
    IF candidates = <<>> THEN <<>> ELSE <<Head(candidates)>>

\* a find that takes the last candidate with the code
findByCode_last(candidates, eventId, code) ==
    LET Matches(d) == generateCodeFromId(d.delegate_id, eventId) = code
        all == SelectSeq(candidates, Matches)
    IN  IF all = <<>> THEN <<>> ELSE <<all[Len(all)]>>

\* delegates.find(d => generateCodeFromId(d.delegate_id, eventId) === code), as a
\* sequence of at most one row
findByCode(candidates, eventId, code) ==
    LET Matches(d) == generateCodeFromId(d.delegate_id, eventId) = code
        all == SelectSeq(candidates, Matches)
    IN  IF all = <<>> THEN <<>> ELSE <<Head(all)>>

\* a checkInByCode that takes a call without a session for an arrival
CheckInByCode_anySession(p, eventId, code, sessionId) ==
    /\ Ready
    /\ Idle(p)
    /\ LET c == Call("checkInByCode", eventId, code, sessionId, Undefined, EmptyString)
           match == findByCode(codeCandidates(User(p)), eventId, code)
       IN  IF ~Truthy(eventId) \/ ~Truthy(code)
           THEN response' = Thrown(p, c, "Context Required", "none") /\ Finish(p)
           ELSE IF match = <<>>
           THEN /\ response' = Returned(p, c, FALSE, "Invalid code or district unauthorized.", EmptyString)
                /\ Finish(p)
           ELSE /\ pc' = [pc EXCEPT ![p] = "lookup"]
                /\ call' = [call EXCEPT ![p] = [c EXCEPT !.delegateId = match[1].delegate_id]]
                /\ response' = NoResponse
    /\ UNCHANGED <<delegates, checkins, clock, nextId, origin>>
    /\ UNCHANGED <<financial_entries, pledges>>

\* a registrar calls db.checkInByCode(eventId, code, registrar, sessionId): up to
\* the answer of the delegates query
CheckInByCode(p, eventId, code, sessionId) ==
    /\ Ready
    /\ Idle(p)
    /\ LET c == Call("checkInByCode", eventId, code, sessionId, Undefined, EmptyString)
           match == findByCode(codeCandidates(User(p)), eventId, code)
       IN  IF ~Truthy(eventId) \/ ~Truthy(code)
           THEN response' = Thrown(p, c, "Context Required", "none") /\ Finish(p)
           ELSE IF ~Truthy(sessionId) \/ Trim(sessionId) = EmptyString
           THEN response' = Thrown(p, c, "Fast Check-in restricted to sessions.", "none") /\ Finish(p)
           ELSE IF match = <<>>
           THEN /\ response' = Returned(p, c, FALSE, "Invalid code or district unauthorized.", EmptyString)
                /\ Finish(p)
           ELSE /\ pc' = [pc EXCEPT ![p] = "lookup"]
                /\ call' = [call EXCEPT ![p] = [c EXCEPT !.delegateId = match[1].delegate_id]]
                /\ response' = NoResponse
    /\ UNCHANGED <<delegates, checkins, clock, nextId, origin>>
    /\ UNCHANGED <<financial_entries, pledges>>

\* checkInByCode hands over to db.checkInDelegate(eventId, match.delegate_id, ...)
CheckInLookup(p) ==
    /\ Ready
    /\ pc[p] = "lookup"
    /\ checkInDelegate_lookup(p, call[p])
    /\ UNCHANGED <<delegates, checkins, nextId, origin>>
    /\ UNCHANGED <<financial_entries, pledges>>

\* ----------------------------------------------------------- searchDelegates
\* a scope that takes every non-empty session id as it comes
search_safeSessionId_untrimmed(sessionId) == IF Truthy(sessionId) THEN sessionId ELSE Null

\* const safeSessionId = (sessionId && sessionId.trim() !== "") ? sessionId : null
search_safeSessionId(sessionId) ==
    IF Truthy(sessionId) /\ Trim(sessionId) # EmptyString THEN sessionId ELSE Null

\* s contains t
Contains(s, t) ==
    \E i \in 0..(Len(s) - Len(t)) : SubSeq(s, i + 1, i + Len(t)) = t

\* column ILIKE %query%
ilike(column, query) == Contains(ToUpperCase(column), ToUpperCase(query))

\* the delegates query of searchDelegates, capped by .limit(100)
SearchLimit == 100

searchQuery(query, district) ==
    LET InScope(d) ==
            /\ (Truthy(district) /\ Trim(district) # EmptyString) => d.district = normalize(district)
            /\ (Truthy(query) /\ Len(query) > 1) =>
                    \/ ilike(d.first_name, query)
                    \/ ilike(d.last_name, query)
                    \/ ilike(d.phone, query)
        all == SelectSeq(delegates, InScope)
    IN  SubSeq(all, 1, IF Len(all) < SearchLimit THEN Len(all) ELSE SearchLimit)

\* a registrar calls db.searchDelegates(query, eventId, district, sessionId): up
\* to the answer of the delegates query
SearchDelegates(p, query, eventId, district, sessionId) ==
    /\ Ready
    /\ Idle(p)
    /\ LET c == Call("searchDelegates", eventId, query, sessionId, district, EmptyString)
           found == searchQuery(query, district)
       IN  IF ~Truthy(eventId) \/ found = <<>>
           THEN response' = ReturnedRows(p, c, <<>>) /\ Finish(p)
           ELSE /\ pc' = [pc EXCEPT ![p] = "checkins"]
                /\ call' = [call EXCEPT ![p] =
                        c @@ [safeSessionId |-> search_safeSessionId(sessionId), found |-> found]]
                /\ response' = NoResponse
    /\ UNCHANGED <<delegates, checkins, clock, nextId, origin>>
    /\ UNCHANGED <<financial_entries, pledges>>

\* a status query that looks into the check-ins of every event
checkinQuery_anyEvent(eventId, delegateIds, safeSessionId) ==
    {r \in checkins :
        /\ r.delegate_id \in delegateIds
        /\ r.session_id = safeSessionId}

\* checkinQuery: .eq('event_id', eventId).in('delegate_id', delegateIds), and
\* .eq('session_id', safeSessionId) or .is('session_id', null)
checkinQuery(eventId, delegateIds, safeSessionId) ==
    {r \in checkins :
        /\ r.event_id = eventId
        /\ r.delegate_id \in delegateIds
        /\ r.session_id = safeSessionId}

\* the check-in status query of searchDelegates is answered and the call returns
SearchCheckins(p) ==
    /\ Ready
    /\ pc[p] = "checkins"
    /\ LET c == call[p]
           made == Made(c)
           delegateIds == {c.found[i].delegate_id : i \in 1..Len(c.found)}
           checkedInSet ==
               {r.delegate_id : r \in checkinQuery(c.eventId, delegateIds, c.safeSessionId)}
       IN  response' = ReturnedRows(p, made,
                [i \in 1..Len(c.found) |->
                    [delegate_id |-> c.found[i].delegate_id,
                     district |-> c.found[i].district,
                     checkedIn |-> c.found[i].delegate_id \in checkedInSet,
                     code |-> generateCodeFromId(c.found[i].delegate_id, c.eventId)]])
    /\ Finish(p)
    /\ UNCHANGED <<delegates, checkins, clock, nextId, origin>>
    /\ UNCHANGED <<financial_entries, pledges>>

\* ------------------------------------------------------------------ getStats
\* the rows of a set as a sequence, latest checked_in_at first
\* (.order('checked_in_at', { ascending: false }))
RECURSIVE OrderDesc(_)
OrderDesc(rows) ==
    IF rows = {} THEN <<>>
    ELSE LET top == CHOOSE r \in rows : \A o \in rows : o.checked_in_at <= r.checked_in_at
         IN  <<top>> \o OrderDesc(rows \ {top})

\* district ? normalize(district).toUpperCase() : null
normalizedFilter(district) ==
    IF Truthy(district) THEN ToUpperCase(normalize(district)) ELSE Null

\* normalize(d.district).toUpperCase() === normalizedFilter, when there is a filter
PassesFilter(d, filter) == Truthy(filter) => ToUpperCase(normalize(d.district)) = filter

\* delegates?.find(del => del.delegate_id === c.delegate_id), as a sequence of at most one row
findDelegate(rows, id) ==
    LET Has(d) == d.delegate_id = id
        all == SelectSeq(rows, Has)
    IN  IF all = <<>> THEN <<>> ELSE <<Head(all)>>

\* the forEach over the check-ins that fills uniqueActivityMap: the entries in
\* the order they were first set
RECURSIVE uniqueActivity(_, _, _, _)
uniqueActivity(ordered, rows, filter, seen) ==
    IF ordered = <<>> THEN <<>>
    ELSE LET c == Head(ordered)
             d == findDelegate(rows, c.delegate_id)
         IN  IF d = <<>> \/ ~PassesFilter(d[1], filter) \/ c.delegate_id \in seen
             THEN uniqueActivity(Tail(ordered), rows, filter, seen)
             ELSE <<[checkin_id |-> c.checkin_id, delegate_id |-> c.delegate_id,
                     session_id |-> c.session_id, checked_in_at |-> c.checked_in_at,
                     checked_in_by |-> c.checked_in_by, district |-> d[1].district,
                     rank |-> IF Truthy(d[1].rank) THEN d[1].rank ELSE <<"-">>]>>
                  \o uniqueActivity(Tail(ordered), rows, filter, seen \cup {c.delegate_id})

\* Array.from(uniqueActivityMap.values()).slice(0, 10)
RecentLimit == 10

Slice(s, n) == SubSeq(s, 1, IF Len(s) < n THEN Len(s) ELSE n)

\* filteredDelegates
filteredDelegates(rows, filter) ==
    LET Passes(d) == PassesFilter(d, filter)
    IN  SelectSeq(rows, Passes)

\* the delegates with a check-in in the event, of any district
attendedDelegates_unfiltered(found, rows, filter) ==
    LET attendedIds == {c.delegate_id : c \in found}
        Attended(d) == d.delegate_id \in attendedIds
    IN  SelectSeq(rows, Attended)

\* the filtered delegate of each check-in row of the event, row by row
attendedDelegates_perRow(found, rows, filter) ==
    LET Holder(c) == findDelegate(filteredDelegates(rows, filter), c.delegate_id)
        Held(c) == Holder(c) # <<>>
        kept == SelectSeq(OrderDesc(found), Held)
    IN  [i \in 1..Len(kept) |-> Holder(kept[i])[1]]

\* attendedDelegates: the filtered delegates with a check-in in the event
attendedDelegates(found, rows, filter) ==
    LET attendedIds == {c.delegate_id : c \in found}
        Attended(d) == d.delegate_id \in attendedIds
    IN  SelectSeq(filteredDelegates(rows, filter), Attended)

Unknown == <<"U", "n", "k", "n", "o", "w", "n">>

\* d.rank || 'Unknown', d.district || 'Unknown'
OrUnknown(v) == IF Truthy(v) THEN v ELSE Unknown

\* counts that note each value of the column once
countBy_once(rows, column) ==
    LET keys == {OrUnknown(rows[i][column]) : i \in 1..Len(rows)}
    IN  [k \in keys |-> 1]

\* rankCounts / districtCounts: a count per value of the column among the rows
countBy(rows, column) ==
    LET keys == {OrUnknown(rows[i][column]) : i \in 1..Len(rows)}
    IN  [k \in keys |-> Cardinality({i \in 1..Len(rows) : OrUnknown(rows[i][column]) = k})]

\* the figures getStats returns, from the answers of its two queries
dashboardStats(found, rows, district) ==
    LET filter == normalizedFilter(district)
        attended == attendedDelegates(found, rows, filter)
    IN  [totalDelegates |-> Len(filteredDelegates(rows, filter)),
         totalCheckIns |-> Len(attended),
         checkInsByRank |-> countBy(attended, "rank"),
         checkInsByDistrict |-> countBy(attended, "district"),
         recentActivity |-> Slice(uniqueActivity(OrderDesc(found), rows, filter, {}), RecentLimit)]

\* what a request resolves to: the rows asked for, or an error and no data
Answer(rows) == [error |-> "none", data |-> rows]

\* supabase.from('financial_entries').select('amount').eq('event_id', eventId)
financialsQuery(eventId) == {f \in financial_entries : f.event_id = eventId}

\* financials?.reduce((sum, f) => sum + (parseFloat(f.amount) || 0), 0) || 0
RECURSIVE SumAmounts(_)
SumAmounts(entries) ==
    IF entries = {} THEN 0
    ELSE LET f == CHOOSE e \in entries : TRUE
         IN  f.amount + SumAmounts(entries \ {f})

totalFinancials(financials) ==
    IF financials.error # "none" THEN 0 ELSE SumAmounts(financials.data)

\* a getStats that hands the answer of the financial entries request to
\* handleSupabaseError
getStats_aborting(p, c, figures, financials) ==
    IF financials.error # "none"
    THEN Thrown(p, c, "Stats Failed", financials.error)
    ELSE ReturnedStats(p, c, figures @@ [totalFinancials |-> totalFinancials(financials)])

\* the return of getStats: the figures and the financial total
getStats_return(p, c, figures, financials) ==
    ReturnedStats(p, [c EXCEPT !.error = financials.error],
                  figures @@ [totalFinancials |-> totalFinancials(financials)])

\* a user calls db.getStats(eventId, district): up to the answer of the checkins query
GetStats(p, eventId, district) ==
    /\ Ready
    /\ Idle(p)
    /\ pc' = [pc EXCEPT ![p] = "delegates"]
    /\ call' = [call EXCEPT ![p] =
            Call("getStats", eventId, EmptyString, Undefined, district, EmptyString) @@
            [found |-> {r \in checkins : r.event_id = eventId}]]
    /\ response' = NoResponse
    /\ UNCHANGED <<delegates, checkins, clock, nextId, origin>>
    /\ UNCHANGED <<financial_entries, pledges>>

\* the delegates query and the financial entries query of getStats are
\* answered and the call returns
GetStatsDelegates(p) ==
    /\ Ready
    /\ pc[p] = "delegates"
    /\ LET c == call[p]
           made == Made(c)
       IN  response' = getStats_return(p, made, dashboardStats(c.found, delegates, c.district),
                                       Answer(financialsQuery(c.eventId)))
    /\ Finish(p)
    /\ UNCHANGED <<delegates, checkins, clock, nextId, origin>>
    /\ UNCHANGED <<financial_entries, pledges>>

\* ------------------------------------------- registerDelegate and the new-delegate page
\* the id the table gives a new delegate
NewId(n) == <<"N", DigitChar(n)>>

\* const payload = { ...form }; if (isDistrictScoped) payload.district = user.district
submitPayload(user, form) ==
    IF isScopedRegistrar(user) THEN [form EXCEPT !.district = user.district] ELSE form

\* supabase.from('delegates').select('*').eq('phone', phone)
registerExisting(delegate, phone) ==
    {delegates[i] : i \in {i \in 1..Len(delegates) : delegates[i].phone = phone}}

\* a payload that takes the fields as they were typed
registerPayload_raw(id, delegate, phone) ==
    DelegateRow(id, delegate.first_name, delegate.last_name, phone, delegate.district,
                delegate.rank, Null)

\* the row registerDelegate inserts, with the id the table gives it
registerPayload(id, delegate, phone) ==
    DelegateRow(id, normalize(delegate.first_name), normalize(delegate.last_name), phone,
                normalize(delegate.district),
                IF Truthy(normalize(delegate.rank)) THEN normalize(delegate.rank)
                ELSE <<"C", "P">>,
                Null)

\* handleSubmit of the new-delegate page calls db.registerDelegate(payload): up
\* to the answer of the existing-phone query
NewDelegateSubmit(p, form, activeEventId) ==
    /\ Ready
    /\ Idle(p)
    /\ Truthy(activeEventId)
    /\ LET payload == submitPayload(User(p), form)
           c == [Call("registerDelegate", activeEventId, payload.phone, Undefined,
                      Undefined, EmptyString) EXCEPT !.form = payload]
           phone == normalize(payload.phone)
           existing == maybeSingle(registerExisting(payload, phone))
       IN  IF ~Truthy(phone)
           THEN response' = Thrown(p, c, "Phone number required.", "none") /\ Finish(p)
           ELSE IF existing # NoData
           THEN /\ response' =
                    [ReturnedRows(p, c, <<CHOOSE r \in existing : TRUE>>) EXCEPT
                        !.delegateId = (CHOOSE r \in existing : TRUE).delegate_id]
                /\ Finish(p)
           ELSE /\ Len(delegates) < MaxDelegates
                /\ pc' = [pc EXCEPT ![p] = "register"]
                /\ call' = [call EXCEPT ![p] = c @@ [phone |-> phone]]
                /\ response' = NoResponse
    /\ UNCHANGED <<delegates, checkins, clock, nextId, origin>>
    /\ UNCHANGED <<financial_entries, pledges>>

\* the insert of registerDelegate reaches the table and the new row is returned
RegisterInsert(p) ==
    /\ Ready
    /\ pc[p] = "register"
    /\ LET c == call[p]
           row == registerPayload(NewId(nextId), c.form, c.phone)
       IN  /\ delegates' = Append(delegates, row)
           /\ response' = [ReturnedRows(p, Made(c), <<row>>) EXCEPT
                                !.delegateId = row.delegate_id]
    /\ nextId' = nextId + 1
    /\ Finish(p)
    /\ UNCHANGED <<checkins, clock, origin>>
    /\ UNCHANGED <<financial_entries, pledges>>

\* handleSubmit goes on with the returned delegate: it derives the code to
\* display and calls db.checkInDelegate(activeEventId, actualId, user)
SubmitCheckIn(p) ==
    /\ response.op = "registerDelegate"
    /\ response.outcome = "return"
    /\ response.by = p
    /\ Idle(p)
    /\ LET actualId == response.rows[1].delegate_id
           displayCode == generateCodeFromId(actualId, response.eventId)
           c == [Call("handleSubmit", response.eventId, actualId, Undefined, Undefined,
                      actualId) EXCEPT !.form = response.form, !.display = displayCode]
       IN  IF ~Truthy(actualId)
           THEN /\ response' = Thrown(p, c, "Database persistence failure.", "none")
                /\ UNCHANGED <<pc, call, clock>>
           ELSE checkInDelegate_lookup(p, c)
    /\ UNCHANGED <<delegates, checkins, nextId, origin>>
    /\ UNCHANGED <<financial_entries, pledges>>

\* ------------------------------------------------- helpers called on their own
\* a caller computes generateCodeFromId(delegateId, eventId), as the pages do
\* to display a code
GenerateCode(p, delegateId, eventId) ==
    /\ Idle(p)
    /\ response' = Returned(p, Call("generateCodeFromId", eventId, delegateId, Undefined,
                                    Undefined, delegateId),
                            TRUE, "", generateCodeFromId(delegateId, eventId))
    /\ UNCHANGED <<delegates, checkins, clock, nextId, pc, call, origin>>
    /\ UNCHANGED <<financial_entries, pledges>>

\* normalize(val) of the service is computed
Normalize(p, val) ==
    /\ Idle(p)
    /\ response' = Returned(p, Call("normalize", EmptyString, val, Undefined, Undefined,
                                    EmptyString),
                            TRUE, "", normalize(val))
    /\ UNCHANGED <<delegates, checkins, clock, nextId, pc, call, origin>>
    /\ UNCHANGED <<financial_entries, pledges>>

\* normalize(val) of the earlier service is computed
NormalizeCollapsing(p, val) ==
    /\ Idle(p)
    /\ response' = Returned(p, Call("normalize_collapsing", EmptyString, val, Undefined,
                                    Undefined, EmptyString),
                            TRUE, "", normalize_collapsing(val))
    /\ UNCHANGED <<delegates, checkins, clock, nextId, pc, call, origin>>
    /\ UNCHANGED <<financial_entries, pledges>>

\* ------------------------------------------------------------- data module
\* What the database does with the check-ins of a delegate row that is
\* deleted is decided by the schema, which the application does not state:
\* the rows go with it ("cascade"), stay behind ("keep"), or hold the delete
\* back with an error ("restrict").
ReferentialActions == {"cascade", "keep", "restrict"}

\* the delete is held back: a row to delete is referenced by a check-in
HeldBack(action, ids) == action = "restrict" /\ \E r \in checkins : r.delegate_id \in ids

\* supabase.from('delegates').delete()...select(): the rows removed
deletedDelegates(ids) ==
    LET Gone(d) == d.delegate_id \in ids
    IN  SelectSeq(delegates, Gone)

\* the tables after a delete of the delegates of the given ids
DeleteDelegates(action, ids) ==
    LET Stays(d) == d.delegate_id \notin ids
    IN  /\ delegates' = SelectSeq(delegates, Stays)
        /\ checkins' = IF action = "cascade"
                       THEN {r \in checkins : r.delegate_id \notin ids}
                       ELSE checkins

\* supabase.from('checkins').delete().eq('event_id', eventId): the rows left
clearEventData_checkins(eventId) == {r \in checkins : r.event_id # eventId}

\* db.clearEventData(eventId): the delete on checkins
ClearEventData(p, eventId) ==
    /\ Ready
    /\ Idle(p)
    /\ checkins' = clearEventData_checkins(eventId)
    /\ pc' = [pc EXCEPT ![p] = "clear_financials"]
    /\ call' = [call EXCEPT ![p] =
            Call("clearEventData", eventId, EmptyString, Undefined, Undefined, EmptyString)]
    /\ response' = NoResponse
    /\ UNCHANGED <<delegates, clock, nextId, origin>>
    /\ UNCHANGED <<financial_entries, pledges>>

\* db.clearEventData: the delete on financial_entries
ClearFinancials(p) ==
    /\ Ready
    /\ pc[p] = "clear_financials"
    /\ financial_entries' = {f \in financial_entries : f.event_id # call[p].eventId}
    /\ pc' = [pc EXCEPT ![p] = "clear_pledges"]
    /\ UNCHANGED <<delegates, checkins, clock, nextId, call, response, origin, pledges>>

\* db.clearEventData: the delete on pledges, and return true
ClearPledges(p) ==
    /\ Ready
    /\ pc[p] = "clear_pledges"
    /\ pledges' = {f \in pledges : f.event_id # call[p].eventId}
    /\ response' = Returned(p, Made(call[p]), TRUE, "", EmptyString)
    /\ Finish(p)
    /\ UNCHANGED <<delegates, checkins, clock, nextId, origin, financial_entries>>

\* db.deleteDelegatesByScope(scope)
DeleteDelegatesByScope(p, scope) ==
    /\ Ready
    /\ Idle(p)
    /\ LET c == Call("deleteDelegatesByScope", EmptyString, scope, Undefined, Undefined,
                     EmptyString)
           ids == {delegates[i].delegate_id : i \in 1..Len(delegates)}
       IN  IF scope # "all"
           THEN /\ response' = ReturnedCount(p, c, 0)
                /\ UNCHANGED <<delegates, checkins>>
           ELSE \E action \in ReferentialActions :
                    IF HeldBack(action, ids)
                    THEN /\ response' = Thrown(p, c, "foreign key violation", "foreign_key")
                         /\ UNCHANGED <<delegates, checkins>>
                    ELSE /\ response' = ReturnedCount(p, c, Len(deletedDelegates(ids)))
                         /\ DeleteDelegates(action, ids)
    /\ Finish(p)
    /\ UNCHANGED <<clock, nextId, origin>>
    /\ UNCHANGED <<financial_entries, pledges>>

\* the key of a delegate in deduplicateDelegates:
\* `${normalize(first_name)}|${normalize(last_name)}|${normalize(phone)}`.toUpperCase()
dedupeKey(d) ==
    ToUpperCase(normalize(d.first_name) \o <<"|">> \o normalize(d.last_name)
                \o <<"|">> \o normalize(d.phone))

\* the forEach of deduplicateDelegates: the ids of the rows whose key an
\* earlier row has
toDelete(rows) ==
    {rows[i].delegate_id : i \in {i \in 1..Len(rows) :
        \E j \in 1..(i - 1) : dedupeKey(rows[j]) = dedupeKey(rows[i])}}

\* db.deduplicateDelegates(): up to the answer of the delegates query
DeduplicateDelegates(p) ==
    /\ Ready
    /\ Idle(p)
    /\ LET c == Call("deduplicateDelegates", EmptyString, EmptyString, Undefined, Undefined,
                     EmptyString)
       IN  IF toDelete(delegates) = {}
           THEN response' = ReturnedCount(p, c, 0) /\ Finish(p)
           ELSE /\ pc' = [pc EXCEPT ![p] = "dedupe_delete"]
                /\ call' = [call EXCEPT ![p] = c @@ [toDelete |-> toDelete(delegates)]]
                /\ response' = NoResponse
    /\ UNCHANGED <<delegates, checkins, clock, nextId, origin>>
    /\ UNCHANGED <<financial_entries, pledges>>

\* db.deduplicateDelegates(): the batch delete is answered and the call returns
DeduplicateDelete(p) ==
    /\ Ready
    /\ pc[p] = "dedupe_delete"
    /\ LET c == call[p]
           made == Made(c)
       IN  \E action \in ReferentialActions :
                IF HeldBack(action, c.toDelete)
                THEN /\ response' = handleSupabaseError(p, made, "foreign_key",
                                                        "Deduplication Failed")
                     /\ UNCHANGED <<delegates, checkins>>
                ELSE /\ response' = ReturnedCount(p, made, Len(deletedDelegates(c.toDelete)))
                     /\ DeleteDelegates(action, c.toDelete)
    /\ Finish(p)
    /\ UNCHANGED <<clock, nextId, origin>>
    /\ UNCHANGED <<financial_entries, pledges>>

\* ------------------------------------------------------------ paged answers
\* the most rows the persistence layer hands over in answer to one request
PageSize == 2

\* the answer to a request without .range(): the first page of the rows
firstPage(rows) == Slice(rows, PageSize)

\* db.getStats while answers are paged: the one checkins request of the call
GetStatsPaged(p, eventId, district) ==
    /\ Ready
    /\ Idle(p)
    /\ pc' = [pc EXCEPT ![p] = "delegates"]
    /\ LET page == firstPage(OrderDesc({r \in checkins : r.event_id = eventId}))
       IN  call' = [call EXCEPT ![p] =
                Call("getStats", eventId, EmptyString, Undefined, district, EmptyString) @@
                [found |-> {page[i] : i \in 1..Len(page)}]]
    /\ response' = NoResponse
    /\ UNCHANGED <<delegates, checkins, clock, nextId, origin>>
    /\ UNCHANGED <<financial_entries, pledges>>

\* the one delegates request of the call is answered by its first page and
\* the call returns
GetStatsDelegatesPaged(p) ==
    /\ Ready
    /\ pc[p] = "delegates"
    /\ LET c == call[p]
           made == Made(c)
       IN  response' = getStats_return(p, made,
                                       dashboardStats(c.found, firstPage(delegates), c.district),
                                       Answer(financialsQuery(c.eventId)))
    /\ Finish(p)
    /\ UNCHANGED <<delegates, checkins, clock, nextId, origin>>
    /\ UNCHANGED <<financial_entries, pledges>>

\* ------------------------------------------------------ persistence failures
\* the error of a request the persistence layer could not serve
NetworkError == "network"

\* db.checkInDelegate whose existence query is answered { data: null, error }:
\* only data is read, so the call goes on to its insert
checkInDelegate_lookupFailed(p, c) ==
    /\ Truthy(c.eventId)
    /\ Truthy(c.delegateId)
    /\ clock < MaxCheckIns
    /\ pc' = [pc EXCEPT ![p] = "insert"]
    /\ call' = [call EXCEPT ![p] =
            [c EXCEPT !.error = NetworkError] @@
            [safeSessionId |-> checkIn_safeSessionId(c.sessionId),
             code |-> checkIn_code(c.delegateId, c.eventId), checked_in_at |-> clock]]
    /\ clock' = clock + 1
    /\ response' = NoResponse

\* a registrar calls db.checkInDelegate and the existence query fails
CheckInDelegateFailed(p, eventId, delegateId, sessionId) ==
    /\ Ready
    /\ Idle(p)
    /\ checkInDelegate_lookupFailed(p, Call("checkInDelegate", eventId, delegateId, sessionId,
                                            Undefined, delegateId))
    /\ UNCHANGED <<delegates, checkins, nextId, origin>>
    /\ UNCHANGED <<financial_entries, pledges>>

\* the existence query of the db.checkInDelegate that checkInByCode calls fails
CheckInLookupFailed(p) ==
    /\ Ready
    /\ pc[p] = "lookup"
    /\ checkInDelegate_lookupFailed(p, call[p])
    /\ UNCHANGED <<delegates, checkins, nextId, origin>>
    /\ UNCHANGED <<financial_entries, pledges>>

\* the insert of checkInDelegate is answered with an error
CheckInInsertFailed(p) ==
    /\ Ready
    /\ pc[p] = "insert"
    /\ response' = handleSupabaseError(p, Made(call[p]), NetworkError, "Verification Rejected")
    /\ Finish(p)
    /\ UNCHANGED <<delegates, checkins, clock, nextId, origin>>
    /\ UNCHANGED <<financial_entries, pledges>>

\* a registrar calls db.checkInByCode and the delegates query fails
CheckInByCodeFailed(p, eventId, code, sessionId) ==
    /\ Ready
    /\ Idle(p)
    /\ Truthy(eventId)
    /\ Truthy(code)
    /\ Truthy(sessionId)
    /\ Trim(sessionId) # EmptyString
    /\ response' = Thrown(p, Call("checkInByCode", eventId, code, sessionId, Undefined, EmptyString),
                          "Database Access Error.", NetworkError)
    /\ Finish(p)
    /\ UNCHANGED <<delegates, checkins, clock, nextId, origin>>
    /\ UNCHANGED <<financial_entries, pledges>>

\* the answer to a request that failed: { data: null, error }
FailedAnswer == [error |-> NetworkError, data |-> {}]

\* the delegates query of getStats is answered, its financial entries query
\* fails, and the call returns
GetStatsFinancialsFailed(p) ==
    /\ Ready
    /\ pc[p] = "delegates"
    /\ LET c == call[p]
           made == Made(c)
       IN  response' = getStats_return(p, made, dashboardStats(c.found, delegates, c.district),
                                       FailedAnswer)
    /\ Finish(p)
    /\ UNCHANGED <<delegates, checkins, clock, nextId, origin>>
    /\ UNCHANGED <<financial_entries, pledges>>

\* a registrar calls db.searchDelegates and the delegates query fails:
\* if (delError || !delegates) return []
SearchDelegatesFailed(p, query, eventId, district, sessionId) ==
    /\ Ready
    /\ Idle(p)
    /\ Truthy(eventId)
    /\ response' = ReturnedRows(p,
            [Call("searchDelegates", eventId, query, sessionId, district, EmptyString)
                EXCEPT !.error = NetworkError],
            <<>>)
    /\ Finish(p)
    /\ UNCHANGED <<delegates, checkins, clock, nextId, origin>>
    /\ UNCHANGED <<financial_entries, pledges>>

\* the check-in status query of searchDelegates fails: its data is null, and
\* new Set(checkins?.map(...) || []) is empty
SearchCheckinsFailed(p) ==
    /\ Ready
    /\ pc[p] = "checkins"
    /\ LET c == call[p]
           checkedInSet == {}
       IN  response' = ReturnedRows(p, [Made(c) EXCEPT !.error = NetworkError],
                [i \in 1..Len(c.found) |->
                    [delegate_id |-> c.found[i].delegate_id,
                     district |-> c.found[i].district,
                     checkedIn |-> c.found[i].delegate_id \in checkedInSet,
                     code |-> generateCodeFromId(c.found[i].delegate_id, c.eventId)]])
    /\ Finish(p)
    /\ UNCHANGED <<delegates, checkins, clock, nextId, origin>>
    /\ UNCHANGED <<financial_entries, pledges>>

\* ------------------------------------------------------------ specification
\* The master list holds three delegates; "Aa" and "BB" are the same person
\* entered twice, and "BB" is filed under "L", under " l" or under "K".
InitDelegates ==
    {<<DelegateRow(DAa, <<"J", "o">>, <<"D", "o">>, <<"0", "1">>, DistrictL, <<"C", "P">>, Null),
       DelegateRow(DBB, <<"J", "o">>, <<"D", "o">>, <<"0", "1">>, bbDistrict, <<"C", "P">>, Null),
       DelegateRow(DCc, <<"M", "a">>, <<"X", "o">>, <<"0", "2">>, DistrictK, <<"F", "R">>,
                   <<"0", "0", "0", "0">>)>> :
        bbDistrict \in {<<" ", "l">>, DistrictK}}

\* an offering of 5 and one of 7 at e1 and one of 3 at e2; a pledge at each event
InitFinancials ==
    {FinancialEntry(1, E1, 5), FinancialEntry(2, E1, 7), FinancialEntry(3, E2, 3)}
InitPledges == {Pledge(1, E1), Pledge(2, E2)}

Init ==
    /\ financial_entries = InitFinancials
    /\ pledges = InitPledges
    /\ delegates \in InitDelegates
    /\ checkins = {}
    /\ clock = 0
    /\ nextId = 1
    /\ pc = [p \in Registrars |-> "idle"]
    /\ call = [p \in Registrars |-> NoCall]
    /\ response = NoResponse
    /\ origin = <<>>

\* what callers pass as sessionId: undefined, "", " " or a session id
SessionInputs == {Undefined, EmptyString, Blank, S1}

\* the codes typed in: that of "Aa" and "BB", that of "Cc", and one of nobody
CodeInputs == {generateCodeFromId(DAa, E1), generateCodeFromId(DCc, E1), <<"1", "2", "3", "4">>}

\* Concurrent check-ins: both registrars check delegates in, by id and by
\* code, and their requests reach the tables in any order.
RaceDelegates == {DAa, DCc}
RaceCodes == {generateCodeFromId(DAa, E1)}

Next ==
    \E p \in Registrars :
        \/ \E d \in RaceDelegates, s \in SessionInputs : CheckInDelegate(p, E1, d, s)
        \/ \E code \in RaceCodes, s \in SessionInputs : CheckInByCode(p, E1, code, s)
        \/ CheckInLookup(p)
        \/ CheckInInsert(p)
        \/ Return

Spec == Init /\ [][Next]_vars

\* One call at a time: a call starts when no other call is in flight.
Quiet == \A q \in Registrars : Idle(q)

SeqDelegates == {DAa, DBB, DCc}
SeqQueries == {EmptyString, <<"j", "o">>}
SeqDistricts == {Undefined, Blank, <<"l", " ">>, DistrictK}
SearchDistricts == {Undefined, DistrictK}

NextSeq ==
    \E p \in Registrars :
        \/ \E d \in SeqDelegates, s \in SessionInputs : Quiet /\ CheckInDelegate(p, E1, d, s)
        \/ \E code \in CodeInputs, s \in SessionInputs : Quiet /\ CheckInByCode(p, E1, code, s)
        \/ CheckInLookup(p)
        \/ CheckInInsert(p)
        \/ \E q \in SeqQueries, district \in SearchDistricts, s \in SessionInputs :
                Quiet /\ SearchDelegates(p, q, E1, district, s)
        \/ SearchCheckins(p)
        \/ \E district \in SeqDistricts : Quiet /\ GetStats(p, E1, district)
        \/ GetStatsDelegates(p)
        \/ CheckInAgain(p)
        \/ Return

SpecSeq == Init /\ [][NextSeq]_vars

\* The helpers on their own, over ids that make the hash small, negative,
\* wrap around and reach the least 32-bit value ("GydZ" + "G_"), and over
\* strings with spaces at either end and inside.
CodeDelegates ==
    {EmptyString, DAa, DBB, DCc, <<"G", "y", "d", "Z">>, <<"e", "d", "A">>,
     <<"a", "1", "b", "2", "c", "3", "d", "0">>, <<"d", "d", "d", "d", "d", "d", "d", "d">>}
CodeEvents == {EmptyString, E1, E2, <<"G", "_">>, <<"e", "1", "e", "2", "e", "1", "e", "2">>}
NormalizeInputs ==
    {Undefined, EmptyString, <<" ">>, <<" ", " ">>, <<"a">>, <<" ", "a">>, <<"a", " ">>,
     <<" ", " ", "a", " ">>, <<"a", " ", "b">>, <<"a", " ", " ", "b">>,
     <<" ", "a", " ", " ", "b", " ", " ">>}

NextPure ==
    \E p \in Registrars :
        \/ \E d \in CodeDelegates, e \in CodeEvents : GenerateCode(p, d, e)
        \/ \E val \in NormalizeInputs : Normalize(p, val)
        \/ \E val \in NormalizeInputs : NormalizeCollapsing(p, val)

SpecPure == Init /\ [][NextPure]_vars

\* The new-delegate page, one submission at a time: a person on the list under
\* two ids, a person on the list typed in another case, new persons with and
\* without a phone, and a new person who gives the phone of somebody else.
RegForms ==
    {Form(<<"J", "o">>, <<"D", "o">>, <<" ", "0", "1">>, DistrictL, <<"C", "P">>),
     Form(<<"m", "a", " ">>, <<"x", "o">>, <<"0", "2">>, DistrictK, <<"F", "R">>),
     Form(<<" ", "N", "e">>, <<"W", "o">>, <<"0", "3", " ">>, <<" ", "K">>, EmptyString),
     Form(<<"N", "e">>, <<"W", "o">>, <<" ">>, DistrictK, <<"C", "P">>),
     Form(<<"A", "l">>, <<"B", "o">>, <<"0", "2">>, DistrictK, <<"C", "P">>)}

NextReg ==
    \E p \in Registrars :
        \/ \E form \in RegForms : Quiet /\ NewDelegateSubmit(p, form, E1)
        \/ RegisterInsert(p)
        \/ SubmitCheckIn(p)
        \/ CheckInInsert(p)
        \/ Return

SpecReg == Init /\ [][NextReg]_vars

\* Check-ins and searches, one call at a time, in which any request to the
\* persistence layer may fail.
FailDelegates == {DAa, DCc}
FailSessions == {Undefined, S1}
FailQueries == {EmptyString, <<"j", "o">>, <<"z", "z">>}

NextFail ==
    \E p \in Registrars :
        \/ \E d \in FailDelegates, s \in FailSessions : Quiet /\ CheckInDelegate(p, E1, d, s)
        \/ \E d \in FailDelegates, s \in FailSessions : Quiet /\ CheckInDelegateFailed(p, E1, d, s)
        \/ \E code \in CodeInputs, s \in FailSessions : Quiet /\ CheckInByCode(p, E1, code, s)
        \/ \E code \in CodeInputs, s \in FailSessions : Quiet /\ CheckInByCodeFailed(p, E1, code, s)
        \/ CheckInLookup(p)
        \/ CheckInLookupFailed(p)
        \/ CheckInInsert(p)
        \/ CheckInInsertFailed(p)
        \/ \E q \in FailQueries, s \in FailSessions : Quiet /\ SearchDelegates(p, q, E1, Undefined, s)
        \/ \E q \in FailQueries, s \in FailSessions :
                Quiet /\ SearchDelegatesFailed(p, q, E1, Undefined, s)
        \/ SearchCheckins(p)
        \/ SearchCheckinsFailed(p)
        \/ \E district \in SearchDistricts : Quiet /\ GetStats(p, E1, district)
        \/ GetStatsDelegates(p)
        \/ GetStatsFinancialsFailed(p)
        \/ Return

SpecFail == Init /\ [][NextFail]_vars

\* Two events and two sessions, one call at a time: check-ins by id, searches
\* and dashboard figures; "Cc" may have arrived at e1 before.
EarlierArrival == CheckInRow(0, E1, DCc, Null, "r2", -1)

InitScope ==
    /\ financial_entries = InitFinancials
    /\ pledges = InitPledges
    /\ delegates \in InitDelegates
    /\ \E earlier \in SUBSET {EarlierArrival} :
            /\ checkins = earlier
            /\ origin = [r \in {row.checkin_id : row \in earlier} |-> Undefined]
    /\ clock = 0
    /\ nextId = 1
    /\ pc = [p \in Registrars |-> "idle"]
    /\ call = [p \in Registrars |-> NoCall]
    /\ response = NoResponse

ScopeEvents == {E1, E2}
ScopeDelegates == {DAa, DCc}
ScopeSessions == {Undefined, S1, S2}
ScopeDistricts == {Undefined, DistrictK}

NextScope ==
    \E p \in Registrars :
        \/ \E e \in ScopeEvents, d \in ScopeDelegates, s \in ScopeSessions :
                Quiet /\ CheckInDelegate(p, e, d, s)
        \/ CheckInInsert(p)
        \/ \E e \in ScopeEvents, s \in ScopeSessions \cup {Blank} :
                Quiet /\ SearchDelegates(p, EmptyString, e, Undefined, s)
        \/ SearchCheckins(p)
        \/ \E district \in ScopeDistricts : Quiet /\ GetStats(p, E1, district)
        \/ GetStatsDelegates(p)
        \/ Return

SpecScope == InitScope /\ [][NextScope]_vars

\* Check-ins by id and dashboard figures, one call at a time, over tables
\* larger than the page the persistence layer answers with.
NextPage ==
    \E p \in Registrars :
        \/ \E d \in SeqDelegates, s \in FailSessions : Quiet /\ CheckInDelegate(p, E1, d, s)
        \/ CheckInInsert(p)
        \/ \E district \in ScopeDistricts : Quiet /\ GetStatsPaged(p, E1, district)
        \/ GetStatsDelegatesPaged(p)
        \/ Return

SpecPage == Init /\ [][NextPage]_vars

\* Calls with and without their identifiers, one call at a time.
ArgEvents == {Undefined, EmptyString, E1}
ArgDelegates == {Undefined, EmptyString, DAa}
ArgCodes == {Undefined, EmptyString, generateCodeFromId(DAa, E1)}

NextArgs ==
    \E p \in Registrars :
        \/ \E e \in ArgEvents, d \in ArgDelegates, s \in FailSessions :
                Quiet /\ CheckInDelegate(p, e, d, s)
        \/ \E e \in ArgEvents, code \in ArgCodes, s \in FailSessions :
                Quiet /\ CheckInByCode(p, e, code, s)
        \/ CheckInLookup(p)
        \/ CheckInInsert(p)
        \/ \E e \in ArgEvents, q \in FailQueries, s \in FailSessions :
                Quiet /\ SearchDelegates(p, q, e, Undefined, s)
        \/ SearchCheckins(p)
        \/ Return

SpecArgs == Init /\ [][NextArgs]_vars

\* The data module beside the daily operations, one call at a time:
\* check-ins at two events, searches, figures, registration, and the
\* clean-up and purge tools.
DataForms ==
    {Form(<<"J", "o">>, <<"D", "o">>, <<" ", "0", "1">>, DistrictL, <<"C", "P">>),
     Form(<<" ", "N", "e">>, <<"W", "o">>, <<"0", "3", " ">>, <<" ", "K">>, EmptyString)}
PurgeScopes == {"all", "none"}

NextData ==
    \E p \in Registrars :
        \/ \E e \in ScopeEvents, d \in ScopeDelegates :
                Quiet /\ CheckInDelegate(p, e, d, Undefined)
        \/ CheckInInsert(p)
        \/ Quiet /\ SearchDelegates(p, EmptyString, E1, Undefined, Undefined)
        \/ SearchCheckins(p)
        \/ Quiet /\ GetStats(p, E1, Undefined)
        \/ GetStatsDelegates(p)
        \/ \E form \in DataForms : Quiet /\ NewDelegateSubmit(p, form, E1)
        \/ RegisterInsert(p)
        \/ SubmitCheckIn(p)
        \/ \E e \in ScopeEvents : Quiet /\ ClearEventData(p, e)
        \/ ClearFinancials(p)
        \/ ClearPledges(p)
        \/ \E scope \in PurgeScopes : Quiet /\ DeleteDelegatesByScope(p, scope)
        \/ Quiet /\ DeduplicateDelegates(p)
        \/ DeduplicateDelete(p)
        \/ Return

SpecData == Init /\ [][NextData]_vars

\* Arrivals of the three delegates at e1 and the dashboard figures under
\* each district filter, one call at a time; "Cc" may have arrived before.
NextStats ==
    \E p \in Registrars :
        \/ \E d \in SeqDelegates : Quiet /\ CheckInDelegate(p, E1, d, Undefined)
        \/ CheckInInsert(p)
        \/ \E district \in SeqDistricts : Quiet /\ GetStats(p, E1, district)
        \/ GetStatsDelegates(p)
        \/ Return

SpecStats == InitScope /\ [][NextStats]_vars

\* The duplicate clean-up beside arrivals and registrations, one call at a
\* time. The master list is the one above, or one in which "Aa" is J. O|D
\* and "BB" is J|O D., two persons with the same phone.
PipeDelegates ==
    <<DelegateRow(DAa, <<"J">>, <<"o", "|", "D">>, <<"0", "1">>, DistrictL, <<"C", "P">>, Null),
      DelegateRow(DBB, <<"J", "|", "o">>, <<"D">>, <<"0", "1">>, DistrictL, <<"C", "P">>, Null),
      DelegateRow(DCc, <<"M", "a">>, <<"X", "o">>, <<"0", "2">>, DistrictK, <<"F", "R">>,
                  <<"0", "0", "0", "0">>)>>

InitDedupe ==
    /\ financial_entries = InitFinancials
    /\ pledges = InitPledges
    /\ delegates \in InitDelegates \cup {PipeDelegates}
    /\ checkins = {}
    /\ clock = 0
    /\ nextId = 1
    /\ pc = [p \in Registrars |-> "idle"]
    /\ call = [p \in Registrars |-> NoCall]
    /\ response = NoResponse
    /\ origin = <<>>

NextDedupe ==
    \E p \in Registrars :
        \/ \E d \in SeqDelegates : Quiet /\ CheckInDelegate(p, E1, d, Undefined)
        \/ CheckInInsert(p)
        \/ \E form \in DataForms : Quiet /\ NewDelegateSubmit(p, form, E1)
        \/ RegisterInsert(p)
        \/ SubmitCheckIn(p)
        \/ Quiet /\ DeduplicateDelegates(p)
        \/ DeduplicateDelete(p)
        \/ Return

SpecDedupe == InitDedupe /\ [][NextDedupe]_vars

\* The new-delegate page on two desks at once: a submission may start while
\* the other desk's registerDelegate waits between its query and its insert.
\* The forms give a phone nobody on the list has, typed in two ways, and the
\* phone of one delegate of the list.
RaceForms ==
    {Form(<<" ", "N", "e">>, <<"W", "o">>, <<"0", "3", " ">>, <<" ", "K">>, EmptyString),
     Form(<<"N", "e">>, <<"W", "o">>, <<"0", "3">>, DistrictK, <<"C", "P">>),
     Form(<<"A", "l">>, <<"B", "o">>, <<"0", "2">>, DistrictK, <<"C", "P">>)}

NextRegRace ==
    \E p \in Registrars :
        \/ \E form \in RaceForms : NewDelegateSubmit(p, form, E1)
        \/ RegisterInsert(p)
        \/ SubmitCheckIn(p)
        \/ CheckInInsert(p)
        \/ Return

SpecRegRace == Init /\ [][NextRegRace]_vars
\* ------------------------------------------------------------------ claims
\* a session id that is absent, empty or made of whitespace only
IsBlankSession(s) == ~Truthy(s) \/ Trim(s) = EmptyString

\* the scope a session id denotes: the session, or no session
Scope(s) == IF IsBlankSession(s) THEN Null ELSE s

NormUpper(s) == ToUpperCase(normalize(s))

CheckInOps == {"checkInDelegate", "checkInByCode"}

\* the check-ins of one (event, delegate, scope) tuple in a table
RowsOf(table, eventId, delegateId, sessionId) ==
    {r \in table :
        /\ r.event_id = eventId
        /\ r.delegate_id = delegateId
        /\ Scope(r.session_id) = Scope(sessionId)}

\* C1: in every reachable state, whatever the interleaving of checkInDelegate
\* and checkInByCode calls, the check-in table holds at most one row per
\* (event id, delegate id, session id-or-null) tuple.
C1_OneRowPerTuple ==
    \A r1, r2 \in checkins :
        (/\ r1.event_id = r2.event_id
         /\ r1.delegate_id = r2.delegate_id
         /\ Scope(r1.session_id) = Scope(r2.session_id)) => r1 = r2

\* an insert is on its way for a tuple another registrar has already recorded
C1_Witness ==
    \E p \in Registrars :
        /\ pc[p] = "insert"
        /\ \E r \in RowsOf(checkins, call[p].eventId, call[p].delegateId, call[p].sessionId) :
                r.checked_in_by # User(p).id

\* C2: the call whose insert is rejected by the uniqueness constraint returns
\* a success result (already verified) and raises no error.
C2_ConflictAsSuccess ==
    response.error = "unique_violation" =>
        /\ response.outcome = "return"
        /\ response.success

\* C3: calling checkInDelegate twice in sequence with the same (event,
\* delegate, session) returns success:true both times and leaves exactly one
\* check-in row for that tuple.
C3_TwiceInSequence ==
    [][(/\ ~Ready
        /\ response.op = "checkInDelegate"
        /\ ~(response' = NoResponse /\ pc' = pc))
       => /\ response.outcome = "return"
          /\ response.success
          /\ response'.outcome = "return"
          /\ response'.success
          /\ response'.again
          /\ Cardinality(RowsOf(checkins', response.eventId, response.delegateId,
                                response.sessionId)) = 1]_vars

\* the second call in a row has answered "Already Verified" and one row stands
C3_Witness ==
    /\ response.again
    /\ response.outcome = "return"
    /\ response.success
    /\ response.message = "Already Verified"
    /\ Cardinality(RowsOf(checkins, response.eventId, response.delegateId,
                          response.sessionId)) = 1

\* the step in which the existence query of checkInDelegate is answered for p
LookupStep(p) ==
    /\ pc[p] \in {"idle", "lookup"}
    /\ \/ pc'[p] = "insert"
       \/ /\ response'.by = p
          /\ response'.op \in CheckInOps
          /\ Truthy(response'.delegateId)

\* the call that step works for
LookedUp(p) == IF pc'[p] = "insert" THEN call'[p] ELSE response'

\* C4: when checkInDelegate finds an existing row for (event, delegate,
\* normalized session) it returns success with "Already Verified" and leaves
\* the check-in table as it is, the existing row included.
C4_AlreadyVerifiedNoWrite ==
    [][\A p \in Registrars :
        (/\ LookupStep(p)
         /\ RowsOf(checkins, LookedUp(p).eventId, LookedUp(p).delegateId,
                   LookedUp(p).sessionId) # {})
        => /\ pc'[p] = "idle"
           /\ response'.outcome = "return"
           /\ response'.success
           /\ response'.message = "Already Verified"
           /\ checkins' = checkins]_vars

\* "Already Verified" is answered for an empty session id, on another
\* registrar's row
C4_Witness ==
    /\ response.message = "Already Verified"
    /\ response.sessionId = EmptyString
    /\ \E r \in RowsOf(checkins, response.eventId, response.delegateId, response.sessionId) :
            r.checked_in_by # response.by

\* C5: an empty or whitespace-only session id and an absent one denote the
\* same scope: a delegate checked in under one is reported checkedIn by a
\* search under the other, and no stored row has an empty or whitespace-only
\* session id.
C5_BlankSessionIsNoSession ==
    /\ \A r \in checkins : r.session_id = Null \/ ~IsBlankSession(r.session_id)
    /\ (/\ response.op = "searchDelegates"
        /\ response.outcome = "return"
        /\ IsBlankSession(response.sessionId))
       => \A r \in checkins :
            (r.event_id = response.eventId /\ IsBlankSession(origin[r.checkin_id]))
            => \A i \in 1..Len(response.rows) :
                    response.rows[i].delegate_id = r.delegate_id => response.rows[i].checkedIn

\* a search without session id reports a delegate who was checked in with ""
C5_Witness ==
    /\ response.op = "searchDelegates"
    /\ response.sessionId = Undefined
    /\ \E r \in checkins :
        /\ origin[r.checkin_id] = EmptyString
        /\ \E i \in 1..Len(response.rows) :
            /\ response.rows[i].delegate_id = r.delegate_id
            /\ response.rows[i].checkedIn

\* the delegates whose derived code for the event is the code
Holders(eventId, code) ==
    {i \in 1..Len(delegates) : generateCodeFromId(delegates[i].delegate_id, eventId) = code}

\* the code is that of a delegate of another district than the registrar's
ForeignCode(p, eventId, code) ==
    /\ LowerRole(User(p).role) = REGISTRAR
    /\ Truthy(User(p).district)
    /\ \E i \in Holders(eventId, code) :
            NormUpper(delegates[i].district) # NormUpper(User(p).district)

\* the step in which checkInByCode is called by p and its delegates query answered
ByCodeStep(p) ==
    /\ pc[p] = "idle"
    /\ \/ pc'[p] = "lookup"
       \/ pc'[p] = "idle" /\ response'.by = p /\ response'.op = "checkInByCode"

ByCodeCall(p) == IF pc'[p] = "lookup" THEN call'[p] ELSE response'

NoCandidate(p, eventId, code) ==
    \A i \in Holders(eventId, code) :
        /\ LowerRole(User(p).role) = REGISTRAR
        /\ Truthy(User(p).district)
        /\ delegates[i].district # normalize(User(p).district)

C8_DerivedCode ==
    (/\ response.op \in CheckInOps
     /\ response.outcome = "return"
     /\ response.success)
    => response.code = generateCodeFromId(response.delegateId, response.eventId)

\* an already-verified result for the delegate whose stored code is stale
C8_Witness ==
    /\ response.op = "checkInDelegate"
    /\ response.message = "Already Verified"
    /\ response.code = generateCodeFromId(response.delegateId, response.eventId)
    /\ \E i \in 1..Len(delegates) :
        /\ delegates[i].delegate_id = response.delegateId
        /\ Truthy(delegates[i].code)
        /\ delegates[i].code # response.code

\* the district filter is in effect
FilterInEffect(district) == Truthy(district) /\ Trim(district) # EmptyString

\* the delegates the filter lets through, and those of them checked in for the event
Matching(district) ==
    {i \in 1..Len(delegates) :
        FilterInEffect(district) => NormUpper(delegates[i].district) = NormUpper(district)}

Attended(eventId, district) ==
    {i \in Matching(district) :
        \E r \in checkins : r.event_id = eventId /\ r.delegate_id = delegates[i].delegate_id}

\* normalized, uppercased (first name, last name, district, rank)
IdentityOf(d) ==
    <<NormUpper(d.first_name), NormUpper(d.last_name), NormUpper(d.district), NormUpper(d.rank)>>

Identities(eventId, district) == {IdentityOf(delegates[i]) : i \in Attended(eventId, district)}

\* C9: getStats counts an identity once, however many delegate rows carry it:
\* totalCheckIns and the checkInsByRank entries count identities.
C9_IdentityCountedOnce ==
    response.op = "getStats" =>
        LET ids == Identities(response.eventId, response.district)
        IN  /\ response.stats.totalCheckIns = Cardinality(ids)
            /\ \A k \in DOMAIN response.stats.checkInsByRank :
                response.stats.checkInsByRank[k] =
                    Cardinality({id \in ids : id[4] = NormUpper(k)})

\* C10: getStats computes totalDelegates and totalCheckIns under the same
\* district filter: totalCheckIns is at most totalDelegates, and only
\* delegates of the filter's district enter totalCheckIns, checkInsByRank,
\* checkInsByDistrict and recentActivity.
C10_FilterConsistency ==
    response.op = "getStats" =>
        LET st == response.stats
            all == Matching(response.district)
            att == Attended(response.eventId, response.district)
        IN  /\ st.totalDelegates = Cardinality(all)
            /\ st.totalCheckIns = Cardinality(att)
            /\ st.totalCheckIns <= st.totalDelegates
            /\ \A k \in DOMAIN st.checkInsByRank :
                st.checkInsByRank[k] =
                    Cardinality({i \in att : OrUnknown(delegates[i].rank) = k})
            /\ \A k \in DOMAIN st.checkInsByDistrict :
                st.checkInsByDistrict[k] =
                    Cardinality({i \in att : OrUnknown(delegates[i].district) = k})
            /\ \A j \in 1..Len(st.recentActivity) :
                \E i \in att : delegates[i].delegate_id = st.recentActivity[j].delegate_id

\* figures under the filter "l " while a delegate of district K is checked in
C10_Witness ==
    /\ response.op = "getStats"
    /\ response.district = <<"l", " ">>
    /\ response.stats.totalCheckIns >= 1
    /\ \E r \in checkins : r.event_id = response.eventId /\ r.delegate_id = DCc

\* a computed code for two ids that are both given
CodeGiven(r) == r.op = "generateCodeFromId" /\ Truthy(r.arg) /\ Truthy(r.eventId)

DigitValue(c) ==
    CASE c = "0" -> 0 [] c = "1" -> 1 [] c = "2" -> 2 [] c = "3" -> 3 [] c = "4" -> 4
      [] c = "5" -> 5 [] c = "6" -> 6 [] c = "7" -> 7 [] c = "8" -> 8 [] c = "9" -> 9
      [] OTHER -> -1

\* a string of exactly four decimal digits, and the number it writes
FourDigits(code) == Len(code) = 4 /\ \A i \in 1..4 : DigitValue(code[i]) >= 0

CodeValue(code) ==
    1000 * DigitValue(code[1]) + 100 * DigitValue(code[2])
        + 10 * DigitValue(code[3]) + DigitValue(code[4])

\* C11: for non-empty ids generateCodeFromId returns the same value on every
\* call, a string of exactly 4 decimal digits whose value lies in 1..9999,
\* also when the hash is the least 32-bit value.
C11_FourDigitCode ==
    [][CodeGiven(response')
       => /\ FourDigits(response'.code)
          /\ CodeValue(response'.code) \in 1..9999
          /\ (/\ CodeGiven(response)
              /\ response.arg = response'.arg
              /\ response.eventId = response'.eventId)
             => response'.code = response.code]_vars

\* the code of the pair whose hash is -2^31
C11_Witness ==
    /\ CodeGiven(response)
    /\ HashLoop(Word(0, 0), response.arg \o response.eventId) = Word(32768, 0)
    /\ response.code = <<"8", "4", "1", "8">>

\* C12: generateCodeFromId returns "0000" whenever the delegate id or the
\* event id is empty, whatever the other argument is.
C12_EmptyIdCode ==
    (/\ response.op = "generateCodeFromId"
     /\ (response.arg = EmptyString \/ response.eventId = EmptyString))
    => response.code = <<"0", "0", "0", "0">>

\* an empty delegate id with an event id has given "0000"
C12_Witness ==
    /\ response.op = "generateCodeFromId"
    /\ response.arg = EmptyString
    /\ response.eventId = E1
    /\ response.code = <<"0", "0", "0", "0">>

\* hash * 31 + charCode, wrapped to 32 bits
Times31Plus(w, n) ==
    LET lo == w[2] * 31 + n
        hi == w[1] * 31 + lo \div 65536
    IN  <<hi % 65536, lo % 65536>>

\* the reference recurrence over the characters of a string
RECURSIVE ReferenceHash(_, _)
ReferenceHash(w, str) ==
    IF str = <<>> THEN w
    ELSE LET next == Times31Plus(w, CharCode(Head(str)))
         IN  IF next[1] >= 0 THEN ReferenceHash(next, Tail(str)) ELSE w

\* abs(hash) mod 9999 plus 1, from the signed value of the word
ReferenceCode(w) ==
    IF w[1] < 32768 THEN ((w[1] * 65536 + w[2]) % 9999) + 1
    ELSE IF w = <<32768, 0>> THEN (((2147483647 % 9999) + 1) % 9999) + 1
    ELSE (((65535 - w[1]) * 65536 + (65536 - w[2])) % 9999) + 1

\* C13: the hash loop of generateCodeFromId yields the value of the
\* recurrence hash = hash * 31 + charCode wrapped to signed 32 bits over
\* delegateId followed by eventId, and the code is abs(hash) mod 9999 plus 1,
\* zero-padded to 4 digits.
C13_HashIsTimes31 ==
    CodeGiven(response) =>
        LET salt == response.arg \o response.eventId
            reference == ReferenceHash(<<0, 0>>, salt)
        IN  /\ HashLoop(Word(0, 0), salt) = reference
            /\ FourDigits(response.code)
            /\ CodeValue(response.code) = ReferenceCode(reference)

\* the code of a pair whose hash has wrapped around to a negative value
C13_Witness ==
    /\ CodeGiven(response)
    /\ response.arg = <<"a", "1", "b", "2", "c", "3", "d", "0">>
    /\ response.eventId = E1
    /\ IsNegative32(HashLoop(Word(0, 0), response.arg \o response.eventId))
    /\ response.code = <<"1", "6", "9", "5">>

\* C14: normalize is idempotent: normalize(normalize(x)) = normalize(x) for
\* every x, undefined, empty and strings with leading, trailing or repeated
\* inner whitespace included; so is the normalize of the earlier service.
C14_NormalizeIdempotent ==
    /\ response.op = "normalize"
        => /\ response.code = normalize(response.arg)
           /\ normalize(response.code) = response.code
    /\ response.op = "normalize_collapsing"
        => /\ response.code = normalize_collapsing(response.arg)
           /\ normalize_collapsing(response.code) = response.code

\* a string with spaces at both ends and inside has been normalized
C14_Witness ==
    /\ response.op = "normalize"
    /\ response.arg = <<" ", "a", " ", " ", "b", " ", " ">>
    /\ response.code = <<"a", " ", " ", "b">>

\* the step in which registerDelegate is called by p and its existing-phone
\* query answered, and the call that step works for
RegisterStep(p) ==
    /\ pc[p] = "idle"
    /\ \/ pc'[p] = "register"
       \/ pc'[p] = "idle" /\ response'.by = p /\ response'.op = "registerDelegate"

RegisterCall(p) == IF pc'[p] = "register" THEN call'[p] ELSE response'

\* a row with the normalized (first name, last name, phone) of the form
SameKey(row, form) ==
    /\ normalize(row.first_name) = normalize(form.first_name)
    /\ normalize(row.last_name) = normalize(form.last_name)
    /\ normalize(row.phone) = normalize(form.phone)

\* C15: registerDelegate for a delegate whose normalized (first name, last
\* name, phone) is that of an existing row returns the existing row and leaves
\* the delegates table as it is.
C15_DuplicateRegistration ==
    [][\A p \in Registrars :
        /\ (/\ RegisterStep(p)
            /\ \E i \in 1..Len(delegates) : SameKey(delegates[i], RegisterCall(p).form))
           => /\ pc'[p] = "idle"
              /\ response'.outcome = "return"
              /\ Len(response'.rows) = 1
              /\ \E i \in 1..Len(delegates) : delegates[i] = response'.rows[1]
              /\ SameKey(response'.rows[1], response'.form)
              /\ delegates' = delegates
        /\ (/\ pc[p] = "register"
            /\ \E i \in 1..Len(delegates) : SameKey(delegates[i], call[p].form))
           => delegates' = delegates]_vars

\* a row of the same person, names and phone compared without case
SamePerson(row, form) ==
    /\ NormUpper(row.first_name) = NormUpper(form.first_name)
    /\ NormUpper(row.last_name) = NormUpper(form.last_name)
    /\ NormUpper(row.phone) = NormUpper(form.phone)

FreshPhone(form) ==
    /\ Truthy(normalize(form.phone))
    /\ \A i \in 1..Len(delegates) : delegates[i].phone # normalize(form.phone)

FailureOps == {"checkInDelegate", "checkInByCode", "searchDelegates"}

\* C17: a persistence failure during checkInDelegate, checkInByCode or
\* searchDelegates reaches the caller as an error, never as a normal result
\* (an empty list, a not-checked-in flag, a success), and a failed existence
\* lookup of checkInDelegate is not followed by an insert attempt.
C17_FailurePropagated ==
    /\ (response.op \in FailureOps /\ response.error = NetworkError) =>
            response.outcome = "throw"
    /\ \A p \in Registrars : pc[p] = "insert" => call[p].error # NetworkError

\* ---------------------------------------------------------------- C18
\* the check-in rows of a delegate in an event, of every session
SessionRows(eventId, delegateId) ==
    {r \in checkins : r.event_id = eventId /\ r.delegate_id = delegateId}

\* C18: a delegate with several check-in rows in the event (sessions, and
\* possibly the arrival row) adds exactly 1 to totalCheckIns, to the count of
\* its rank and to the count of its district, and is at most once in
\* recentActivity.
C18_OncePerDelegate ==
    response.op = "getStats" =>
        LET st == response.stats
            att == Attended(response.eventId, response.district)
        IN  \A i \in Matching(response.district) :
                Cardinality(SessionRows(response.eventId, delegates[i].delegate_id)) >= 2 =>
                    LET others == att \ {i}
                        rank == OrUnknown(delegates[i].rank)
                        district == OrUnknown(delegates[i].district)
                    IN  /\ st.totalCheckIns = 1 + Cardinality(others)
                        /\ rank \in DOMAIN st.checkInsByRank
                        /\ st.checkInsByRank[rank] =
                                1 + Cardinality({j \in others : OrUnknown(delegates[j].rank) = rank})
                        /\ district \in DOMAIN st.checkInsByDistrict
                        /\ st.checkInsByDistrict[district] =
                                1 + Cardinality({j \in others :
                                                    OrUnknown(delegates[j].district) = district})
                        /\ Cardinality({j \in 1..Len(st.recentActivity) :
                                st.recentActivity[j].delegate_id = delegates[i].delegate_id}) <= 1

\* the figures of e1 while "Aa" is checked in to both sessions and "Cc" has arrived
C18_Witness ==
    /\ response.op = "getStats"
    /\ response.district = Undefined
    /\ \E r \in SessionRows(E1, DAa) : r.session_id = S1
    /\ \E r \in SessionRows(E1, DAa) : r.session_id = S2
    /\ SessionRows(E1, DCc) # {}
    /\ response.stats.totalCheckIns = 2
    /\ Len(response.stats.recentActivity) = 2

\* ---------------------------------------------------------------- C19
\* C19: every delegate searchDelegates returns has checkedIn true exactly when
\* a check-in row exists for the event searched, that delegate and the
\* session scope of the session id given (null for an absent, empty or blank
\* one); rows of another session or another event do not count.
C19_CheckedInByScope ==
    (response.op = "searchDelegates" /\ response.outcome = "return") =>
        \A j \in 1..Len(response.rows) :
            response.rows[j].checkedIn <=>
                RowsOf(checkins, response.eventId, response.rows[j].delegate_id,
                       Scope(response.sessionId)) # {}

\* a search of e1 with a blank session id: "Cc" has its arrival row, "Aa" has
\* a row in session s1 of e1 and an arrival row in e2 only
C19_Witness ==
    /\ response.op = "searchDelegates"
    /\ response.eventId = E1
    /\ response.sessionId = Blank
    /\ RowsOf(checkins, E1, DAa, S1) # {}
    /\ RowsOf(checkins, E2, DAa, Null) # {}
    /\ \E j \in 1..Len(response.rows) :
            response.rows[j].delegate_id = DAa /\ ~response.rows[j].checkedIn
    /\ \E j \in 1..Len(response.rows) :
            response.rows[j].delegate_id = DCc /\ response.rows[j].checkedIn

\* ---------------------------------------------------------------- C20
\* the delegates the delegates query of checkInByCode hands to registrar p
Scanned(p) ==
    {i \in 1..Len(delegates) :
        (LowerRole(User(p).role) = REGISTRAR /\ Truthy(User(p).district)) =>
            delegates[i].district = normalize(User(p).district)}

\* of those, the ones with the code, and the first of them in scan order
ScannedHolders(p, eventId, code) == Scanned(p) \cap Holders(eventId, code)

IsFirstHolder(p, eventId, code, delegateId) ==
    \E i \in ScannedHolders(p, eventId, code) :
        /\ delegates[i].delegate_id = delegateId
        /\ \A j \in ScannedHolders(p, eventId, code) : i <= j

\* the step that ends a checkInByCode call of p
ByCodeEnd(p) ==
    /\ pc[p] # "idle" \/ ByCodeStep(p)
    /\ pc'[p] = "idle"
    /\ response'.by = p
    /\ response'.op = "checkInByCode"

\* C20: checkInByCode writes in the last step of the call only, and a call
\* that succeeds adds at most one check-in row: a row of the event for the
\* first delegate in scan order whose derived code is the code submitted. No
\* other row is added, changed or removed, so the other holders of the code
\* stay as they were.
C20_FirstHolderOnly ==
    [][\A p \in Registrars :
        /\ (ByCodeStep(p) \/ (pc[p] = "lookup" /\ pc'[p] # "lookup")) => checkins' = checkins
        /\ (ByCodeEnd(p) /\ response'.outcome = "return" /\ response'.success) =>
                /\ checkins \subseteq checkins'
                /\ Cardinality(checkins' \ checkins) <= 1
                /\ IsFirstHolder(p, response'.eventId, response'.arg, response'.delegateId)
                /\ \A r \in checkins' \ checkins :
                        /\ r.event_id = response'.eventId
                        /\ r.delegate_id = response'.delegateId
                        /\ generateCodeFromId(r.delegate_id, response'.eventId) = response'.arg
                /\ response'.message = "Verification Confirmed" =>
                        Cardinality(checkins' \ checkins) = 1]_vars

\* the administrator has checked in by the code "Aa" and "BB" share: "Aa" has
\* the row, "BB" has none
C20_Witness ==
    /\ response.op = "checkInByCode"
    /\ response.by = "r2"
    /\ response.message = "Verification Confirmed"
    /\ response.arg = generateCodeFromId(DBB, E1)
    /\ Cardinality(ScannedHolders("r2", E1, response.arg)) = 2
    /\ RowsOf(checkins, E1, DAa, S1) # {}
    /\ SessionRows(E1, DBB) = {}

\* ---------------------------------------------------------------- C21
\* registrar p is scoped to a district and the delegate is filed under another
OtherDistrict(p, delegateId) ==
    /\ LowerRole(User(p).role) = REGISTRAR
    /\ Truthy(User(p).district)
    /\ \E i \in 1..Len(delegates) :
            /\ delegates[i].delegate_id = delegateId
            /\ NormUpper(delegates[i].district) # NormUpper(User(p).district)

\* C21: checkInDelegate called by delegate id makes no district check: for a
\* registrar scoped to one district and a delegate of another, with no row
\* yet for (event, delegate, session scope), the call goes on to its insert,
\* one check-in row is created and the result is a success.
C21_NoDistrictCheckById ==
    [][\A p \in Registrars :
        /\ (/\ LookupStep(p)
            /\ LookedUp(p).op = "checkInDelegate"
            /\ OtherDistrict(p, LookedUp(p).delegateId)
            /\ RowsOf(checkins, LookedUp(p).eventId, LookedUp(p).delegateId,
                      LookedUp(p).sessionId) = {})
           => pc'[p] = "insert"
        /\ (/\ pc[p] = "insert"
            /\ pc'[p] = "idle"
            /\ call[p].op = "checkInDelegate"
            /\ OtherDistrict(p, call[p].delegateId))
           => /\ response'.outcome = "return"
              /\ response'.success
              /\ Cardinality(checkins' \ checkins) = 1
              /\ \A r \in checkins' \ checkins :
                    /\ r.event_id = call[p].eventId
                    /\ r.delegate_id = call[p].delegateId
                    /\ r.session_id = Scope(call[p].sessionId)
                    /\ r.checked_in_by = User(p).id]_vars

\* the registrar of district L has checked in "Cc" of district K by its id
C21_Witness ==
    /\ response.op = "checkInDelegate"
    /\ response.by = "r1"
    /\ response.delegateId = DCc
    /\ response.success
    /\ response.message = "Verification Confirmed"
    /\ \E r \in SessionRows(E1, DCc) : r.checked_in_by = "r1"

\* ---------------------------------------------------------------- C22
\* the longest feed the claim allows
FeedBound == 15

\* the identity of the delegate a feed entry is about
EntryIdentity(entry) ==
    LET d == findDelegate(delegates, entry.delegate_id)
    IN  IF d = <<>> THEN <<>> ELSE IdentityOf(d[1])

\* C22: recentActivity of getStats has at most 15 entries, runs from the most
\* recent check-in to the oldest, and holds at most one entry per identity,
\* the most recent check-in of that identity in the event.
C22_RecentActivityFeed ==
    response.op = "getStats" =>
        LET feed == response.stats.recentActivity
        IN  /\ Len(feed) <= FeedBound
            /\ \A i, j \in 1..Len(feed) :
                    i < j => feed[i].checked_in_at >= feed[j].checked_in_at
            /\ \A i, j \in 1..Len(feed) :
                    i # j => EntryIdentity(feed[i]) # EntryIdentity(feed[j])
            /\ \A i \in 1..Len(feed) :
                    \A r \in checkins :
                        (/\ r.event_id = response.eventId
                         /\ EntryIdentity(r) = EntryIdentity(feed[i]))
                        => r.checked_in_at <= feed[i].checked_in_at

\* ---------------------------------------------------------------- C23
\* C23: when the persistence layer answers in pages, getStats goes through
\* every page, so that for tables larger than one page totalDelegates and
\* totalCheckIns cover the rows of all pages.
C23_AllPagesCounted ==
    response.op = "getStats" =>
        /\ response.stats.totalDelegates = Cardinality(Matching(response.district))
        /\ response.stats.totalCheckIns =
                Cardinality(Attended(response.eventId, response.district))

\* ---------------------------------------------------------------- C24
\* C24: when the financial entries query of getStats fails, getStats still
\* returns, with totalFinancials 0 and with totalDelegates, totalCheckIns,
\* checkInsByRank, checkInsByDistrict and recentActivity as they are when
\* the query succeeds.
C24_FinancialsDegrade ==
    (response.op = "getStats" /\ response.error = NetworkError) =>
        LET figures == dashboardStats({r \in checkins : r.event_id = response.eventId},
                                      delegates, response.district)
        IN  /\ response.outcome = "return"
            /\ response.stats.totalFinancials = 0
            /\ response.stats.totalDelegates = figures.totalDelegates
            /\ response.stats.totalCheckIns = figures.totalCheckIns
            /\ response.stats.checkInsByRank = figures.checkInsByRank
            /\ response.stats.checkInsByDistrict = figures.checkInsByDistrict
            /\ response.stats.recentActivity = figures.recentActivity

\* figures returned after a failed financial entries query, for an event
\* with check-ins and with offerings on record
C24_Witness ==
    /\ response.op = "getStats"
    /\ response.error = NetworkError
    /\ response.outcome = "return"
    /\ response.stats.totalFinancials = 0
    /\ SumAmounts(financialsQuery(response.eventId)) > 0
    /\ response.stats.totalCheckIns >= 1

\* ---------------------------------------------------------------- C25
\* the step in which p calls checkInDelegate, checkInByCode or searchDelegates
CallStep(p) ==
    /\ pc[p] = "idle"
    /\ \/ pc'[p] # "idle" /\ call'[p].op \in FailureOps
       \/ pc'[p] = "idle" /\ response'.by = p /\ response'.op \in FailureOps

CallMade(p) == IF pc'[p] # "idle" THEN call'[p] ELSE response'

\* the call lacks its event id or, for a check-in, its delegate id or code
MissingIdentifier(c) ==
    \/ ~Truthy(c.eventId)
    \/ c.op \in CheckInOps /\ ~Truthy(c.arg)

\* C25: checkInDelegate, checkInByCode and searchDelegates called without an
\* event id (for a check-in, also without a delegate id or a code) are
\* rejected with an error on the spot: no request to the persistence layer
\* is awaited and no table changes.
C25_RejectedLocally ==
    [][\A p \in Registrars :
        (CallStep(p) /\ MissingIdentifier(CallMade(p)))
        => /\ pc'[p] = "idle"
           /\ response'.outcome = "throw"
           /\ delegates' = delegates
           /\ checkins' = checkins
           /\ financial_entries' = financial_entries
           /\ pledges' = pledges]_vars

\* ---------------------------------------------------------------- C26
\* the step in which clearEventData deletes the check-ins of an event
ClearStep(eventId) ==
    \E p \in Registrars :
        /\ pc[p] = "idle"
        /\ pc'[p] = "clear_financials"
        /\ call'[p].op = "clearEventData"
        /\ call'[p].eventId = eventId

\* C26: a check-in row, once created, stays as it is until clearEventData
\* for its own event removes it: no other operation deletes or changes a
\* row, and clearEventData removes no row of another event.
C26_RemovedOnlyByClear ==
    [][\A r \in checkins : r \in checkins' \/ ClearStep(r.event_id)]_vars

\* ---------------------------------------------------------------- C27
\* C27: checkInByCode creates no arrival row: a call with an absent, empty or
\* blank session id is refused with an error in the step it is made, before
\* any delegate is matched, and every row a checkInByCode call inserts has a
\* session id.
C27_ByCodeNeedsSession ==
    [][\A p \in Registrars :
        /\ (ByCodeStep(p) /\ IsBlankSession(ByCodeCall(p).sessionId))
           => /\ pc'[p] = "idle"
              /\ response'.outcome = "throw"
              /\ response'.delegateId = EmptyString
              /\ checkins' = checkins
        /\ (pc[p] = "insert" /\ pc'[p] = "idle" /\ call[p].op = "checkInByCode")
           => \A r \in checkins' \ checkins :
                    r.session_id # Null /\ ~IsBlankSession(r.session_id)]_vars

\* the code of "Aa" was submitted with a blank session id and refused, and
\* "Aa" has no arrival row
C27_Witness ==
    /\ response.op = "checkInByCode"
    /\ response.arg = generateCodeFromId(DAa, E1)
    /\ response.sessionId = Blank
    /\ response.outcome = "throw"
    /\ response.message = "Fast Check-in restricted to sessions."
    /\ RowsOf(checkins, E1, DAa, Null) = {}

\* ---------------------------------------------------------------- C28
\* the sum of the values of a record of counts
RECURSIVE SumOver(_, _)
SumOver(counts, keys) ==
    IF keys = {} THEN 0
    ELSE LET k == CHOOSE x \in keys : TRUE
         IN  counts[k] + SumOver(counts, keys \ {k})

SumOfCounts(counts) == SumOver(counts, DOMAIN counts)

\* C28: in every result of getStats the values of checkInsByRank add up to
\* totalCheckIns, and so do the values of checkInsByDistrict.
C28_CountsAddUp ==
    response.op = "getStats" =>
        /\ SumOfCounts(response.stats.checkInsByRank) = response.stats.totalCheckIns
        /\ SumOfCounts(response.stats.checkInsByDistrict) = response.stats.totalCheckIns

\* figures for three arrivals: two delegates of rank CP, one of rank FR
C28_Witness ==
    /\ response.op = "getStats"
    /\ response.stats.totalCheckIns = 3
    /\ Cardinality(DOMAIN response.stats.checkInsByRank) = 2
    /\ \E k \in DOMAIN response.stats.checkInsByRank : response.stats.checkInsByRank[k] = 2

\* ---------------------------------------------------------------- C29
\* the uppercased normalized (first name, last name, phone) of a delegate
PersonKey(d) == <<NormUpper(d.first_name), NormUpper(d.last_name), NormUpper(d.phone)>>

\* the rows that are the first of their key in the order of the table
FirstOfKey(rows) ==
    LET First(i) == \A j \in 1..(i - 1) : PersonKey(rows[j]) # PersonKey(rows[i])
        keep == {i \in 1..Len(rows) : First(i)}
        Kept(d) == \E i \in keep : rows[i] = d
    IN  SelectSeq(rows, Kept)

NoSharedKey(rows) ==
    \A i, j \in 1..Len(rows) : i # j => PersonKey(rows[i]) # PersonKey(rows[j])

\* the step in which p calls deduplicateDelegates, and the step that ends the call
DedupeCall(p) ==
    /\ pc[p] = "idle"
    /\ \/ pc'[p] = "dedupe_delete"
       \/ pc'[p] = "idle" /\ response'.by = p /\ response'.op = "deduplicateDelegates"

DedupeEnd(p) ==
    /\ pc[p] = "dedupe_delete" \/ DedupeCall(p)
    /\ pc'[p] = "idle"
    /\ response'.by = p
    /\ response'.op = "deduplicateDelegates"
    /\ response'.outcome = "return"

\* C29: deduplicateDelegates keeps, for each uppercased normalized (first
\* name, last name, phone), the first delegate in fetch order and deletes
\* the later ones; afterwards no two delegates share a key and the count
\* returned is the number of rows removed; a run on a list without shared
\* keys, as an immediate second run is, removes nothing and returns 0.
C29_KeepsFirstOfKey ==
    [][\A p \in Registrars :
        /\ DedupeEnd(p)
           => /\ delegates' = FirstOfKey(delegates)
              /\ NoSharedKey(delegates')
              /\ response'.count = Len(delegates) - Len(delegates')
        /\ (DedupeCall(p) /\ NoSharedKey(delegates))
           => /\ pc'[p] = "idle"
              /\ response'.outcome = "return"
              /\ response'.count = 0
              /\ delegates' = delegates]_vars

\* ---------------------------------------------------------------- C30
\* the rows of the master list that registerDelegate inserted
CreatedByRegister(d) == \E n \in 1..(nextId - 1) : d.delegate_id = NewId(n)

\* C30: after any interleaving of registerDelegate calls, two concurrent
\* calls with the same normalized phone included, no two Delegate rows
\* created by registerDelegate have the same normalized phone.
C30_RegisteredPhonesDiffer ==
    \A i, j \in 1..Len(delegates) :
        (i # j /\ CreatedByRegister(delegates[i]) /\ CreatedByRegister(delegates[j]))
            => normalize(delegates[i].phone) # normalize(delegates[j].phone)

====
